---- MODULE Spec2Model ----
(***************************************************************************)
(* Verification model of the opencode-google-antigravity-auth plugin:      *)
(*   - AccountManager (src/plugin/accounts.ts): the account pool,          *)
(*   - createAntigravityFetch (src/plugin/fetch-wrapper.ts): the           *)
(*     account/endpoint failover loop,                                     *)
(*   - transformGeminiRequest / transformClaudeRequest: the handling of    *)
(*     reasoning ("thought") parts and of the signature cache.             *)
(* Time is in milliseconds, as Date.now() is.  Account indices are         *)
(* 0-based as in the source; accounts[i + 1] is the account of index i.    *)
(***************************************************************************)
EXTENDS Integers, Sequences, FiniteSets, TLC

\* ------------------------------------------------------------------ bounds
MaxAccounts == 3
MaxTime == 2
MaxCursor == 4
MaxIds == 4

\* retryAfterMs arguments handed to markRateLimited by the pool's callers
Durations == {0, 1}

\* the lastSwitchReason the stored accounts carry, and the reason the pool's caller passes
StoredReason == "rotation"

VARIABLES
  accounts,             \* AccountManager.accounts: the ordered pool
  currentIndex,         \* AccountManager.currentIndex: the round-robin cursor
  currentAccountIndex,  \* AccountManager.currentAccountIndex: -1 or the current index
  now,                  \* Date.now()
  lastOp,               \* history: the operation that made the last step
  ret,                  \* history: id of the account the last selection returned, 0 for null
  run,                  \* history: ids returned by the consecutive getNext calls made with
                        \* no account rate-limited and no markRateLimited/add/remove between
  \* --- createAntigravityFetch: one logical call at a time
  storage,              \* the persisted AccountStorage snapshot (storage.ts)
  pc,                   \* position of the call: idle, select, token, endpoint, sleep
  callNo,               \* number of calls started
  iter,                 \* iterations of the `while (true)` loop entered so far
  account,              \* `account`: index of the selected account, -1 before a selection
  accountCount,         \* `accountCount`, fixed when the call builds its AccountManager
  ep,                   \* `i` of tryEndpointFallbacks: index of the endpoint to attempt
  lastResponse,         \* `lastResponse`: its status, 0 for null
  lastError,            \* `lastError` is set
  sleepLeft,            \* `remainingMs` of sleepWithBackoff
  sleepStep,            \* `stepIndex` of sleepWithBackoff
  sleepTotal,           \* history: `totalMs` of the last sleepWithBackoff
  slept,                \* history: the `waitMs` of the steps it has slept, in order
  aborted,              \* init.signal.aborted
  saveFails,            \* environment: the storage file cannot be written, saveAccounts() throws
  late,                 \* environment: how late (ms) the timer of sleep() fires
  outcome,              \* how the last call ended: response status returned, or thrown
  round,                \* history: the HTTP attempts of the tryEndpointFallbacks round
                        \* in progress, or of the round that ended the call
  switches,             \* history: the reasons handed to markSwitched by this call
  firstAttempt,         \* history: id of the account of this call's first HTTP attempt
  startActive,          \* history: the stored current account when this call started
  pending429,           \* history: the account marked by a switching 429, the headers of
                        \* that 429 and whether another account was available then; kept
                        \* until the next HTTP attempt of the call
  after429,             \* history: the headers and the time of the last 429 handled by
                        \* this single-account call
  result,               \* history: how the last iteration of the loop ended (the type of
                        \* the EndpointLoopResult, or the `continue` taken before the
                        \* round) and the status of the attempt that ended it, with the
                        \* endpoint, account, time and wait of a retry-soon; kept until
                        \* the next HTTP attempt
  \* --- request transforms and the signature cache
  payload,              \* requestPayload.contents as the client sends it: the turns
  out,                  \* the contents of the last transformed request
  cache,                \* the signature cache, by family, session and text
  responses,            \* number of responses whose reasoning has been cached
  trail,                \* history: the families the payload was transformed for, in order
  \* --- cache.ts: the thinking signature cache
  signatureCache,       \* signatureCache: from key to signature
  puts,                 \* history: the signature last put for each (sessionId, thoughtText)
  got,                  \* what the last getCachedSignature returned: <<>> for undefined
  \* --- gemini.ts: the declared tools
  toolNames,            \* func.name of the function declarations of payload.tools, in order
  originalNames,        \* history: the names as the caller declared them
  passes,               \* history: number of sanitizeToolNames passes over the payload
  \* --- request.ts: prepareAntigravityRequest
  request,              \* the caller's request: its URL and its headers
  prepared,             \* what prepareAntigravityRequest returned for it, <<>> before the call
  \* --- createAntigravityFetch: calls in flight together
  calls,                \* per call in flight: its position, its own AccountManager and
                        \* the account it selected
  \* --- the transformers: the fields of the request payload beside contents and tools
  requestPayload,       \* requestPayload as the caller sent it, with context.model
  transformed,          \* requestPayload after the transformer, <<>> before
  \* --- request.ts: createSseTransformStream
  sseText,              \* history: the whole text of the upstream stream
  sseRest,              \* the part of it not yet delivered as a chunk
  buffer,               \* `buffer`: the partial line held back
  enqueued,             \* what controller.enqueue has been given so far, concatenated
  flushed               \* flush() has run

poolVars == <<accounts, currentIndex, currentAccountIndex, now, lastOp, ret, run>>

callVars == <<storage, pc, callNo, iter, account, accountCount, ep, lastResponse, lastError,
              sleepLeft, sleepStep, aborted, saveFails, late, outcome>>

callHist == <<round, switches, firstAttempt, startActive, pending429, after429, result>>

backoffHist == <<sleepTotal, slept>>

fetchVars == <<callVars, callHist, backoffHist>>

xformVars == <<payload, out, cache, responses, trail>>

cacheVars == <<signatureCache, puts, got>>

toolVars == <<toolNames, originalNames, passes>>

prepareVars == <<request, prepared>>

concurrentVars == <<calls>>

payloadVars == <<requestPayload, transformed>>

sseVars == <<sseText, sseRest, buffer, enqueued, flushed>>

extraVars == <<cacheVars, toolVars, prepareVars, concurrentVars, payloadVars, sseVars>>

\* ------------------------------------------------------------- AccountManager

\* ManagedAccount; id stands for parts.refreshToken (the identity of the account)
NewAccount(id, index, reason) ==
  [id |-> id, index |-> index, isRateLimited |-> FALSE, rateLimitResetTime |-> 0,
   lastSwitchReason |-> reason]

\* mutant: a cooldown counts as over whatever the time
CooldownExpiredAlways(a, t) == TRUE

\* `Date.now() > a.rateLimitResetTime`
CooldownExpired(a, t) == t > a.rateLimitResetTime

\* the filter predicate of getNext: not flagged, or flagged with an expired cooldown
IsAvailable(a, t) == (~a.isRateLimited) \/ CooldownExpired(a, t)

\* the side effect of getNext's filter: every flagged account whose cooldown expired is cleared
ClearExpired(accs, t) ==
  [i \in DOMAIN accs |->
     IF accs[i].isRateLimited /\ CooldownExpired(accs[i], t)
       THEN [accs[i] EXCEPT !.isRateLimited = FALSE]
       ELSE accs[i]]

AvailableOf(accs, t) == SelectSeq(accs, LAMBDA a : IsAvailable(a, t))

\* mutant: the cursor is not advanced
AdvanceCursorStuck(c) == c

\* `this.currentIndex++`
AdvanceCursor(c) == c + 1

\* `available[this.currentIndex % available.length]`
PickAvailable(available, c) == available[(c % Len(available)) + 1]

\* getNext(): the new pool, the new cursor and the index returned (-1 for null)
GetNextR(accs, cursor, t) ==
  LET available == AvailableOf(accs, t)
      cleared   == ClearExpired(accs, t)
  IN IF Len(available) = 0
       THEN [accs |-> cleared, cursor |-> cursor, idx |-> -1]
       ELSE [accs |-> cleared, cursor |-> AdvanceCursor(cursor),
             idx |-> PickAvailable(available, cursor).index]

\* getCurrentAccount(): the index of the current account, -1 for null
GetCurrentAccount(accs, cai) == IF cai >= 0 /\ cai < Len(accs) THEN cai ELSE -1

\* mutant: the current account is never preferred
StickyHitNever(accs, cai) == FALSE

\* the sticky branch of getCurrentOrNext: a current account that is not flagged
StickyHit(accs, cai) ==
  GetCurrentAccount(accs, cai) >= 0 /\ ~accs[GetCurrentAccount(accs, cai) + 1].isRateLimited

\* getCurrentOrNext(): the new pool, cursor, current pointer, the index returned (-1 for
\* null) and the branch taken (sticky: line 135, expired: line 141, next: line 148)
GetCurrentOrNextR(accs, cursor, cai, t) ==
  LET cur == GetCurrentAccount(accs, cai) IN
  IF StickyHit(accs, cai)
    THEN [accs |-> accs, cursor |-> cursor, cai |-> cai, idx |-> cur, branch |-> "sticky"]
    ELSE IF cur >= 0 /\ accs[cur + 1].isRateLimited /\ CooldownExpired(accs[cur + 1], t)
      THEN [accs |-> [accs EXCEPT ![cur + 1].isRateLimited = FALSE],
            cursor |-> cursor, cai |-> cai, idx |-> cur, branch |-> "expired"]
      ELSE LET n == GetNextR(accs, cursor, t) IN
           [accs |-> n.accs, cursor |-> n.cursor,
            cai |-> IF n.idx >= 0 THEN n.idx ELSE cai, idx |-> n.idx, branch |-> "next"]

\* mutant: the retry-after duration is not added
MarkRateLimitedNoDuration(accs, i, d, t) ==
  [accs EXCEPT ![i + 1].isRateLimited = TRUE, ![i + 1].rateLimitResetTime = t]

\* markRateLimited(account, retryAfterMs) on the account of index i
MarkRateLimitedR(accs, i, d, t) ==
  [accs EXCEPT ![i + 1].isRateLimited = TRUE, ![i + 1].rateLimitResetTime = t + d]

\* markSwitched(account, reason) on the account of index i: the new pool
MarkSwitchedR(accs, i, reason) == [accs EXCEPT ![i + 1].lastSwitchReason = reason]

\* mutant: the remaining accounts keep the index they had
RemoveAtNoReindex(accs, index) ==
  [j \in 1..(Len(accs) - 1) |-> IF j <= index THEN accs[j] ELSE accs[j + 1]]

\* removeAccount(index): splice, then re-index the remaining accounts
RemoveAt(accs, index) ==
  LET kept == [j \in 1..(Len(accs) - 1) |-> IF j <= index THEN accs[j] ELSE accs[j + 1]]
  IN [j \in DOMAIN kept |-> [kept[j] EXCEPT !.index = j - 1]]

IdOf(accs, idx) == IF idx >= 0 THEN accs[idx + 1].id ELSE 0

IdsOf(accs) == {accs[i].id : i \in DOMAIN accs}

\* a new account's identity: one no account of the pool has
FreshId(accs) == 1 + Len(accs) + Cardinality({k \in 1..Len(accs) : k \notin IdsOf(accs)})

\* the run of consecutive getNext results, kept to the last Len(accs) entries
Extend(r, id, n) ==
  LET s == Append(r, id) IN IF Len(s) > n THEN SubSeq(s, Len(s) - n + 1, Len(s)) ELSE s

\* no account of the pool is rate-limited at time t
AllAvailable(accs, t) == \A i \in DOMAIN accs : IsAvailable(accs[i], t)

\* save(): the snapshot written to storage; activeIndex is Math.max(0, currentAccountIndex)
Snapshot(accs, cai) == [accounts |-> accs, activeIndex |-> IF cai > 0 THEN cai ELSE 0]

\* loadAccounts(): an activeIndex outside the stored accounts is reset to 0
LoadAccounts(st) ==
  [st EXCEPT !.activeIndex = IF @ < 0 \/ @ >= Len(st.accounts) THEN 0 ELSE @]

\* constructor, from a loaded snapshot: the accounts with their stored rate-limit state,
\* re-indexed by position; the cursor at the stored activeIndex; no current account
ConstructFrom(st) ==
  [accs   |-> [i \in DOMAIN st.accounts |-> [st.accounts[i] EXCEPT !.index = i - 1]],
   cursor |-> st.activeIndex,
   cai    |-> -1]

Min(S) == CHOOSE x \in S : \A y \in S : x <= y

\* mutant: the greatest remaining cooldown instead of the least
GetMinWaitTimeMax(accs, t) ==
  IF \E i \in DOMAIN accs : IsAvailable(accs[i], t) THEN 0
  ELSE LET waitTimes == {IF accs[i].rateLimitResetTime - t > 0
                           THEN accs[i].rateLimitResetTime - t ELSE 0 :
                         i \in {j \in DOMAIN accs : accs[j].isRateLimited}}
       IN IF waitTimes # {} THEN CHOOSE x \in waitTimes : \A y \in waitTimes : x >= y ELSE 0

\* getMinWaitTime(): 0 with an available account, else the least remaining cooldown
GetMinWaitTime(accs, t) ==
  IF \E i \in DOMAIN accs : IsAvailable(accs[i], t) THEN 0
  ELSE LET waitTimes == {IF accs[i].rateLimitResetTime - t > 0
                           THEN accs[i].rateLimitResetTime - t ELSE 0 :
                         i \in {j \in DOMAIN accs : accs[j].isRateLimited}}
       IN IF waitTimes # {} THEN Min(waitTimes) ELSE 0

\* the retry-after-ms / retry-after headers of a response: <<>> for an absent header,
\* <<n>> for a header whose text parseInt reads as n
NoHeaders == [ms |-> <<>>, s |-> <<>>]

\* history values: no switching 429 pending, no 429 handled
NoPending429 == [id |-> 0, headers |-> NoHeaders, alternative |-> FALSE]

NoAfter429 == [seen |-> FALSE, headers |-> NoHeaders, at |-> 0]

NoResult == [type |-> "none", status |-> 0, ep |-> 0, id |-> 0, at |-> 0, wait |-> 0]

\* no logical call in flight
NoCall ==
  /\ pc = "idle"
  /\ callNo = 0
  /\ iter = 0
  /\ account = -1
  /\ accountCount = 0
  /\ ep = 0
  /\ lastResponse = 0
  /\ lastError = FALSE
  /\ sleepLeft = 0
  /\ sleepStep = 0
  /\ sleepTotal = 0
  /\ slept = <<>>
  /\ aborted = FALSE
  /\ outcome = [kind |-> "none", status |-> 0]
  /\ round = <<>>
  /\ switches = <<>>
  /\ firstAttempt = 0
  /\ startActive = [id |-> 0, isRateLimited |-> FALSE]
  /\ pending429 = NoPending429
  /\ after429 = NoAfter429
  /\ result = NoResult

\* ------------------------------------------------ thought signatures and cache

MaxParts == 3
MaxHops == 2
MaxCached == 1
MaxToolParts == 4

\* getSessionId(): the process-wide session id every TransformContext carries
ActiveSession == "s1"

Families == {"claude", "gemini"}

\* a signature string, by its identity and its length; NoSig is a missing (or empty) one
NoSig == [id |-> "", len |-> 0]

\* THOUGHT_SIGNATURE_BYPASS = "skip_thought_signature_validator"
ThoughtSignatureBypass == [id |-> "skip_thought_signature_validator", len |-> 32]

\* the signatures request parts arrive with
ShortSig == [id |-> "short", len |-> 5]

FiftySig == [id |-> "sig-of-50-chars", len |-> 50]

ClaudeSig == [id |-> "sig-issued-by-claude", len |-> 51]

GeminiSig == [id |-> "sig-issued-by-gemini", len |-> 64]

\* the signature the backend of a family puts on the reasoning of its responses
IssuedBy(family) == IF family = "claude" THEN ClaudeSig ELSE GeminiSig

\* thought texts; "" is an empty text
Texts == {"", "T", "U"}

\* `signature.length < 50`: below this length a restoration is attempted
RestoreBelowLen == 50
\* `signature.length > 50`: above this length a signature is valid
MinSignatureLen == 50

\* the family-aware signature cache: (family, sessionId, text) -> signature
CacheKey(family, sessionId, text) == <<family, sessionId, text>>

CacheKeys == {CacheKey(f, ActiveSession, t) : f \in Families, t \in Texts}

EmptyCache == [k \in CacheKeys |-> NoSig]

\* cacheSignature(family, sessionId, text, signature)
CacheSignature(c, family, sessionId, text, signature) ==
  [c EXCEPT ![CacheKey(family, sessionId, text)] = signature]

\* getCachedSignature(family, sessionId, text): NoSig for undefined
GetCachedSignature(c, family, sessionId, text) == c[CacheKey(family, sessionId, text)]

\* ------------------------------------------------------- request contents

\* a part of a turn; n is the identity of the part object (its position in the turn)
Part(kind, text, sig, name) ==
  [n |-> 0, kind |-> kind, text |-> text, sig |-> sig, name |-> name, id |-> <<>>]

PartChoices ==
  {Part("thought", "T", sg, "") : sg \in {NoSig, ShortSig, FiftySig, ClaudeSig, GeminiSig}}
    \cup {Part("thought", "", ClaudeSig, ""),
          Part("text", "A", NoSig, ""),
          Part("functionCall", "", NoSig, "f")}

\* the parts of a turn, each with its identity
Numbered(parts) == [i \in DOMAIN parts |-> [parts[i] EXCEPT !.n = i]]

\* one turn of either role with any parts
TurnPayloads ==
  {<<[role |-> r, parts |-> Numbered(ps)]>> :
     r \in {"user", "model"},
     ps \in UNION {[1..k -> PartChoices] : k \in 1..MaxParts}}

\* a history that went through the Gemini backend: a model turn whose thought part
\* carries the bypass sentinel as its signature, between two user turns
BypassPayloads ==
  {<<[role |-> "user", parts |-> Numbered(<<Part("text", "A", NoSig, "")>>)],
     [role |-> "model",
      parts |-> Numbered(<<Part("thought", text, ThoughtSignatureBypass, ""),
                           Part("text", "A", NoSig, "")>>)],
     [role |-> "user", parts |-> Numbered(<<Part("text", "A", NoSig, "")>>)]>> :
     text \in {"T", "U"}}

\* a user turn and a model turn that carry the same parts: a signed thought, a
\* function call and a text
SameTurnsPayloads ==
  {<<[role |-> "user", parts |-> ps], [role |-> "model", parts |-> ps]>> :
     ps \in {Numbered(<<Part("thought", "T", sg, ""),
                        Part("functionCall", "", NoSig, "f"),
                        Part("text", "A", NoSig, "")>>) : sg \in {ShortSig, ClaudeSig}}}

Payloads == TurnPayloads \cup BypassPayloads \cup SameTurnsPayloads

\* function names of the declared tools
Names == {"f", "g"}

\* function-call and function-response parts: without an id under either name, and
\* with an id the client supplied
ToolChoices ==
  {Part(kind, "", NoSig, nm) : kind \in {"functionCall", "functionResponse"}, nm \in Names}
    \cup {[Part(kind, "", NoSig, "f") EXCEPT !.id = <<"client">>] :
            kind \in {"functionCall", "functionResponse"}}

\* the ids a client supplies differ from part to part
ClientIds(parts) ==
  [j \in DOMAIN parts |->
     IF parts[j].id = <<>> THEN parts[j] ELSE [parts[j] EXCEPT !.id = <<"client", j>>]]

\* a model turn with the first k of a run of tool parts and the user turn that
\* follows it with the rest
ToolPayload(ps, k) ==
  <<[role |-> "model", parts |-> Numbered(SubSeq(ClientIds(ps), 1, k))],
    [role |-> "user", parts |-> Numbered(SubSeq(ClientIds(ps), k + 1, Len(ps)))]>>

\* ------------------------------------------------- transformClaudeRequest

\* mutant: no signature is long enough
ClaudeKeepsNever(signature) == FALSE

\* `typeof signature === "string" && signature.length > 50`
ClaudeKeeps(signature) == signature.len > MinSignatureLen

\* mutant: the lookup takes what either family's cache holds for the text
ClaudeRestoreAnyFamily(c, part, family, sessionId) ==
  IF part.sig = NoSig \/ part.sig.len < RestoreBelowLen
    THEN LET hits == {GetCachedSignature(c, f, sessionId, part.text) : f \in Families}
                       \ {NoSig}
         IN IF hits # {} THEN CHOOSE cached \in hits : TRUE ELSE part.sig
    ELSE part.sig

\* lines 413-424: the signature after the restoration attempt
ClaudeRestore(c, part, family, sessionId) ==
  IF part.sig = NoSig \/ part.sig.len < RestoreBelowLen
    THEN LET cached == GetCachedSignature(c, family, sessionId, part.text)
         IN IF cached # NoSig THEN cached ELSE part.sig
    ELSE part.sig

\* mutant: the response takes the id of the newest call
TakeIdNewest(queue) == queue[Len(queue)]

\* `functionResponse.id = queue.shift()`: the id at the front of the queue
TakeId(queue) == Head(queue)

\* lines 411-469: one part of the walk; st carries the cache, the per-name queues of
\* function-call ids and the parts kept so far
ClaudePart(st, part, family, sessionId) ==
  IF part.kind = "thought"
    THEN LET signature == ClaudeRestore(st.cache, part, family, sessionId) IN
         IF ClaudeKeeps(signature)
           THEN [st EXCEPT
                   !.cache = IF sessionId # ""
                               THEN CacheSignature(@, family, sessionId, part.text, signature)
                               ELSE @,
                   !.parts = Append(@, [part EXCEPT !.sig = signature])]
           ELSE st
  ELSE IF part.kind = "functionCall"
    THEN LET callId == IF part.id = <<>>
                         THEN <<part.name, "uuid", Len(st.contents) + 1, part.n>>
                         ELSE part.id IN
         [st EXCEPT !.queues[part.name] = Append(@, callId),
                    !.parts = Append(@, [part EXCEPT !.id = callId])]
  ELSE IF part.kind = "functionResponse" /\ part.id = <<>> /\ st.queues[part.name] # <<>>
    THEN [st EXCEPT !.queues[part.name] = Tail(@),
                    !.parts = Append(@, [part EXCEPT !.id = TakeId(st.queues[part.name])])]
  ELSE [st EXCEPT !.parts = Append(@, part)]

RECURSIVE ClaudeParts(_, _, _, _)
ClaudeParts(st, parts, family, sessionId) ==
  IF parts = <<>> THEN st
  ELSE ClaudeParts(ClaudePart(st, Head(parts), family, sessionId), Tail(parts),
                   family, sessionId)

\* lines 400-475: the walk over the turns; the cache and the queues run through all of
\* them, the kept parts are per turn
RECURSIVE ClaudeContents(_, _, _, _)
ClaudeContents(st, contents, family, sessionId) ==
  IF contents = <<>> THEN st
  ELSE LET w == ClaudeParts([st EXCEPT !.parts = <<>>], Head(contents).parts,
                            family, sessionId)
       IN ClaudeContents([w EXCEPT !.contents =
                             Append(@, [Head(contents) EXCEPT !.parts = w.parts])],
                         Tail(contents), family, sessionId)

\* ------------------------------------------------- transformGeminiRequest

\* mutant: thought parts pass through as they arrived
GeminiPartKeepAll(c, part, family, sessionId) == <<part>>

\* lines 139-166: one part of a model turn: <<>> when dropped, else the part kept
GeminiPart(c, part, family, sessionId) ==
  IF part.kind = "thought"
    THEN IF part.text # "" /\ sessionId # ""
              /\ GetCachedSignature(c, family, sessionId, part.text) # NoSig
           THEN <<[part EXCEPT !.sig = GetCachedSignature(c, family, sessionId, part.text)]>>
           ELSE <<>>
  ELSE IF part.kind = "functionCall"
    THEN <<[part EXCEPT !.sig = ThoughtSignatureBypass]>>
  ELSE <<part>>

RECURSIVE GeminiParts(_, _, _, _)
GeminiParts(c, parts, family, sessionId) ==
  IF parts = <<>> THEN <<>>
  ELSE GeminiPart(c, Head(parts), family, sessionId)
         \o GeminiParts(c, Tail(parts), family, sessionId)

\* mutant: the turns of every role are filtered
GeminiContentsAllTurns(c, contents, family, sessionId) ==
  [t \in DOMAIN contents |->
     [contents[t] EXCEPT !.parts = GeminiParts(c, @, family, sessionId)]]

\* lines 131-176: only the turns of role model are filtered
GeminiContents(c, contents, family, sessionId) ==
  [t \in DOMAIN contents |->
     IF contents[t].role # "model" THEN contents[t]
     ELSE [contents[t] EXCEPT !.parts = GeminiParts(c, @, family, sessionId)]]

\* the signature cache of cache.ts is empty and has not been read
NoSignatures ==
  /\ signatureCache = <<>>
  /\ puts = <<>>
  /\ got = <<>>

\* the payload declares no tools
NoTools ==
  /\ toolNames = <<>>
  /\ originalNames = <<>>
  /\ passes = 0

\* no request is being prepared
NoRequest ==
  /\ request = <<>>
  /\ prepared = <<>>

\* no calls run side by side
NoConcurrent == calls = <<>>

\* no payload is being transformed
NoPayload ==
  /\ requestPayload = <<>>
  /\ transformed = <<>>

\* no response is being streamed
NoStream ==
  /\ sseText = <<>>
  /\ sseRest = <<>>
  /\ buffer = <<>>
  /\ enqueued = <<>>
  /\ flushed = FALSE

\* the parts of the plugin outside the pool, the call and the transforms are untouched
NoExtra ==
  /\ NoSignatures
  /\ NoTools
  /\ NoRequest
  /\ NoConcurrent
  /\ NoStream
  /\ NoPayload

\* one account, no call in progress
PoolAtRest ==
  /\ accounts = <<NewAccount(1, 0, "none")>>
  /\ storage = Snapshot(accounts, -1)
  /\ currentIndex = 0
  /\ currentAccountIndex = -1
  /\ now = 0
  /\ lastOp = <<"init">>
  /\ ret = 0
  /\ run = <<>>
  /\ saveFails = FALSE
  /\ late = 0
  /\ NoCall

\* no request has been transformed and nothing is cached
NoTransform ==
  /\ payload = <<>>
  /\ out = <<>>
  /\ cache = EmptyCache
  /\ responses = 0
  /\ trail = <<>>

\* ------------------------------------------------------ pool: the operations

\* constructor: N accounts, none flagged; the cursor starts at the stored activeIndex
\* (0 when built from the refresh string), no account is current
PoolInit ==
  /\ \E n \in 1..MaxAccounts :
       /\ accounts = [i \in 1..n |-> NewAccount(i, i - 1, StoredReason)]
       /\ currentIndex \in 0..(n - 1)
  /\ currentAccountIndex = -1
  /\ now = 0
  /\ lastOp = <<"init">>
  /\ ret = 0
  /\ run = <<>>
  /\ storage = Snapshot(accounts, currentAccountIndex)
  /\ saveFails = FALSE
  /\ late = 0
  /\ NoCall
  /\ NoTransform
  /\ NoExtra

GetNextCall ==
  /\ currentIndex < MaxCursor
  /\ LET r == GetNextR(accounts, currentIndex, now) IN
       /\ accounts' = r.accs
       /\ currentIndex' = r.cursor
       /\ ret' = IdOf(r.accs, r.idx)
       /\ run' = IF AllAvailable(accounts, now) /\ r.idx >= 0
                   THEN Extend(run, IdOf(r.accs, r.idx), Len(accounts)) ELSE <<>>
  /\ lastOp' = <<"getNext">>
  /\ UNCHANGED <<currentAccountIndex, now, fetchVars, xformVars, extraVars>>

GetCurrentOrNextCall ==
  /\ currentIndex < MaxCursor
  /\ LET r == GetCurrentOrNextR(accounts, currentIndex, currentAccountIndex, now) IN
       /\ accounts' = r.accs
       /\ currentIndex' = r.cursor
       /\ currentAccountIndex' = r.cai
       /\ ret' = IdOf(r.accs, r.idx)
       /\ run' = IF r.branch # "next" THEN run
                 ELSE IF AllAvailable(accounts, now) /\ r.idx >= 0
                   THEN Extend(run, IdOf(r.accs, r.idx), Len(accounts)) ELSE <<>>
       /\ lastOp' = <<"getCurrentOrNext", r.branch>>
  /\ UNCHANGED <<now, fetchVars, xformVars, extraVars>>

\* history: the call is made on a rate-limited account whose reset time is later than
\* the time t + d the call asks for
Shortens(a, d, t) == a.isRateLimited /\ t + d < a.rateLimitResetTime

\* mutant: a later call keeps the later of the two reset times
MarkRateLimitedCallKeepLater ==
  \E i \in 0..(Len(accounts) - 1), d \in Durations :
    /\ accounts' = [accounts EXCEPT
                      ![i + 1].isRateLimited = TRUE,
                      ![i + 1].rateLimitResetTime =
                         IF accounts[i + 1].isRateLimited /\ @ > now + d THEN @ ELSE now + d]
    /\ lastOp' = <<"markRateLimited", Shortens(accounts[i + 1], d, now)>>
    /\ run' = <<>>
    /\ ret' = 0
    /\ UNCHANGED <<currentIndex, currentAccountIndex, now, fetchVars, xformVars, extraVars>>

MarkRateLimitedCall ==
  \E i \in 0..(Len(accounts) - 1), d \in Durations :
    /\ accounts' = MarkRateLimitedR(accounts, i, d, now)
    /\ lastOp' = <<"markRateLimited", Shortens(accounts[i + 1], d, now)>>
    /\ run' = <<>>
    /\ ret' = 0
    /\ UNCHANGED <<currentIndex, currentAccountIndex, now, fetchVars, xformVars, extraVars>>

MarkSwitchedCall ==
  \E i \in 0..(Len(accounts) - 1) :
    /\ accounts' = MarkSwitchedR(accounts, i, StoredReason)
    /\ currentAccountIndex' = accounts[i + 1].index
    /\ lastOp' = <<"markSwitched">>
    /\ ret' = 0
    /\ UNCHANGED <<currentIndex, now, run, fetchVars, xformVars, extraVars>>

AddAccountCall ==
  /\ Len(accounts) < MaxAccounts
  /\ FreshId(accounts) <= MaxIds
  /\ accounts' = Append(accounts, NewAccount(FreshId(accounts), Len(accounts), "none"))
  /\ lastOp' = <<"addAccount">>
  /\ run' = <<>>
  /\ ret' = 0
  /\ UNCHANGED <<currentIndex, currentAccountIndex, now, fetchVars, xformVars, extraVars>>

\* removeAccount(index), with valid and invalid indices
RemoveAccountCall ==
  \E index \in -1..Len(accounts) :
    /\ IF index < 0 \/ index >= Len(accounts)
         THEN /\ lastOp' = <<"removeAccount:false">>
              /\ UNCHANGED accounts
         ELSE /\ lastOp' = <<"removeAccount:true">>
              /\ accounts' = RemoveAt(accounts, index)
    /\ run' = <<>>
    /\ ret' = 0
    /\ UNCHANGED <<currentIndex, currentAccountIndex, now, fetchVars, xformVars, extraVars>>

Tick ==
  /\ now < MaxTime
  /\ now' = now + 1
  /\ lastOp' = <<"tick">>
  /\ ret' = 0
  /\ UNCHANGED <<accounts, currentIndex, currentAccountIndex, run, fetchVars, xformVars, extraVars>>

PoolNext ==
  \/ GetNextCall
  \/ GetCurrentOrNextCall
  \/ MarkRateLimitedCall
  \/ MarkSwitchedCall
  \/ Tick

vars == <<poolVars, fetchVars, xformVars, extraVars>>

Spec == PoolInit /\ [][PoolNext]_vars

\* getMinWaitTime(): reads the pool and the clock, returns the wait in lastOp[2]
GetMinWaitTimeCall ==
  /\ lastOp' = <<"getMinWaitTime", GetMinWaitTime(accounts, now)>>
  /\ ret' = 0
  /\ UNCHANGED <<accounts, currentIndex, currentAccountIndex, now, run, fetchVars,
                 xformVars, extraVars>>

\* the pool under management: accounts are removed, made current and rate-limited,
\* and the wait is read
ManageNext ==
  \/ MarkRateLimitedCall
  \/ MarkSwitchedCall
  \/ RemoveAccountCall
  \/ GetMinWaitTimeCall
  \/ Tick

SpecManage == PoolInit /\ [][ManageNext]_vars

\* the roster of the pool: accounts are added and removed, and one is made current
RosterNext ==
  \/ AddAccountCall
  \/ RemoveAccountCall
  \/ MarkSwitchedCall

SpecRoster == PoolInit /\ [][RosterNext]_vars

\* ------------------------------------------ createAntigravityFetch: constants

MaxCalls == 2
MaxIter == 4

\* parseRetryAfterMs: `let retryAfterMs = 60000`
DefaultRetryAfterMs == 60000
\* handleRateLimit: `const switchThresholdMs = 5000`
SwitchThresholdMs == 5000
\* handleServerError: `const retryAfterMs = 60000`
ServerErrorRetryAfterMs == 60000
\* `accountManager.getMinWaitTime() || 60000`
AllLimitedWaitMs == 60000
\* `result.retryAfterMs || accountManager.getMinWaitTime() || 1000`
SingleAccountWaitMs == 1000

\* sleepWithBackoff: `const stepsMs = [3000, 5000, 10000, 20000, 30000]`
StepsMs == <<3000, 5000, 10000, 20000, 30000>>

\* CODE_ASSIST_ENDPOINT_FALLBACKS
Endpoints == <<"daily", "autopush", "prod">>

LastEndpoint == Len(Endpoints) - 1

\* response statuses the endpoints answer with
Statuses == {200, 400, 403, 404, 429, 500}

RetryAfterHeaders ==
  {NoHeaders,
   [ms |-> <<0>>, s |-> <<>>],
   [ms |-> <<5000>>, s |-> <<120>>],
   [ms |-> <<>>, s |-> <<6>>]}

\* what `await fetch(finalUrl, transformedInit)` does: throws, or answers with a status
FetchOutcomes ==
  {[threw |-> TRUE, status |-> 0, headers |-> NoHeaders]}
    \cup {[threw |-> FALSE, status |-> st, headers |-> NoHeaders] : st \in Statuses \ {429}}
    \cup {[threw |-> FALSE, status |-> 429, headers |-> h] : h \in RetryAfterHeaders}

\* parseRetryAfterMs(response)
ParseRetryAfterMs(h) ==
  IF h.ms # <<>> THEN h.ms[1]
  ELSE IF h.s # <<>> THEN h.s[1] * 1000
  ELSE DefaultRetryAfterMs

\* the token outcomes after which the loop goes back to the selection
TokenContinues == {"refresh-failed", "no-access"}

\* mutant: every status moves on to the next endpoint
ShouldRetryEndpointAlways(status) == TRUE

\* `response.status === 403 || response.status === 404 || response.status >= 500`
ShouldRetryEndpoint(status) == status = 403 \/ status = 404 \/ status >= 500

\* how late (in ms) the timer of sleep() may fire
Jitter == {0, 1}

\* mutant: `a || b` without the fallback
OrElseFirst(a, b) == a

\* JavaScript `a || b` on numbers
OrElse(a, b) == IF a # 0 THEN a ELSE b

\* ------------------------------------------- createAntigravityFetch: the call

\* the state before the first call: the accounts as stored, none rate-limited
FetchInit ==
  /\ \E n \in 1..MaxAccounts :
       accounts = [i \in 1..n |-> NewAccount(i, i - 1, "none")]
  /\ storage = Snapshot(accounts, -1)
  /\ currentIndex = 0
  /\ currentAccountIndex = -1
  /\ now = 0
  /\ lastOp = <<"init">>
  /\ ret = 0
  /\ run = <<>>
  /\ saveFails \in BOOLEAN
  /\ late \in Jitter
  /\ NoCall
  /\ NoTransform
  /\ NoExtra

poolHist == <<lastOp, ret, run>>

callEnv == <<saveFails, late>>

\* `await accountManager.save()` inside its try/catch: a failed write leaves the stored
\* snapshot as it was and the call goes on
Save(snapshot) == storage' = IF saveFails THEN storage ELSE snapshot

\* lines 365-378: the call loads the snapshot and builds its own AccountManager
StartCall ==
  /\ pc = "idle"
  /\ callNo < MaxCalls
  /\ LET st == LoadAccounts(storage)
         m  == ConstructFrom(st)
     IN /\ accounts' = m.accs
        /\ currentIndex' = m.cursor
        /\ currentAccountIndex' = m.cai
        /\ accountCount' = Len(m.accs)
        /\ startActive' = [id |-> st.accounts[st.activeIndex + 1].id,
                           isRateLimited |-> st.accounts[st.activeIndex + 1].isRateLimited]
  /\ callNo' = callNo + 1
  /\ pc' = "select"
  /\ account' = -1
  /\ ep' = 0
  /\ lastResponse' = 0
  /\ lastError' = FALSE
  /\ sleepLeft' = 0
  /\ sleepStep' = 0
  /\ sleepTotal' = 0
  /\ slept' = <<>>
  /\ aborted' = FALSE
  /\ outcome' = [kind |-> "none", status |-> 0]
  /\ round' = <<>>
  /\ switches' = <<>>
  /\ firstAttempt' = 0
  /\ pending429' = NoPending429
  /\ after429' = NoAfter429
  /\ result' = NoResult
  /\ UNCHANGED <<storage, now, iter, poolHist, callEnv, xformVars, extraVars>>

\* sleepWithBackoff(totalMs) is entered: `remainingMs = Math.max(0, totalMs)`; with
\* nothing to wait the loop body never runs and the caller continues
StartSleep(totalMs) ==
  /\ sleepTotal' = totalMs
  /\ slept' = <<>>
  /\ IF totalMs > 0
       THEN pc' = "sleep" /\ sleepLeft' = totalMs /\ sleepStep' = 0
       ELSE pc' = "select" /\ sleepLeft' = 0 /\ sleepStep' = 0

\* lines 381-426: what one selection of the loop does, with the switch bookkeeping and
\* its save
Selection ==
  /\ pc = "select"
  /\ LET previousAccount == GetCurrentAccount(accounts, currentAccountIndex)
         r == GetCurrentOrNextR(accounts, currentIndex, currentAccountIndex, now)
     IN /\ currentIndex' = r.cursor
        /\ account' = r.idx
        /\ IF r.idx = -1
             THEN /\ accounts' = r.accs
                  /\ currentAccountIndex' = r.cai
                  /\ StartSleep(OrElse(GetMinWaitTime(r.accs, now), AllLimitedWaitMs))
                  /\ UNCHANGED <<storage, switches>>
             ELSE LET isSwitch == previousAccount = -1 \/ previousAccount # r.idx
                      switchReason ==
                        IF previousAccount # -1
                          THEN IF r.accs[previousAccount + 1].isRateLimited
                                 THEN "rate-limit" ELSE "rotation"
                          ELSE "initial"
                      switched == IF isSwitch THEN MarkSwitchedR(r.accs, r.idx, switchReason)
                                  ELSE r.accs
                      pointer == IF isSwitch THEN r.accs[r.idx + 1].index ELSE r.cai
                  IN /\ accounts' = switched
                     /\ currentAccountIndex' = pointer
                     /\ switches' = IF isSwitch THEN Append(switches, switchReason)
                                    ELSE switches
                     /\ IF isSwitch
                          THEN Save(Snapshot(switched, pointer))
                          ELSE UNCHANGED storage
                     /\ pc' = "token"
                     /\ UNCHANGED <<sleepLeft, sleepStep, backoffHist>>
  /\ UNCHANGED <<result, now, callNo, accountCount, ep, lastResponse, lastError, aborted, outcome,
                 round, firstAttempt, startActive, pending429, after429, poolHist,
                 callEnv, xformVars, extraVars>>

\* line 380, `while (true)`: one selection of the loop, counted
SelectAccount ==
  /\ iter < MaxIter
  /\ iter' = iter + 1
  /\ Selection

\* the iteration ends in the given way after an attempt (or a token) with this status
Ended(type, status) == [NoResult EXCEPT !.type = type, !.status = status]

\* the iteration ends with retry-soon: the endpoint and the account of the 429, the time
\* and the parsed retry-after
EndedRetrySoon(retryAfterMs) ==
  [type |-> "retry-soon", status |-> 429, ep |-> ep, id |-> accounts[account + 1].id,
   at |-> now, wait |-> retryAfterMs]

\* lines 428-447: the access token of the selected account; a failed refresh, or a
\* record without access token, goes back to the selection
EnsureToken ==
  /\ pc = "token"
  /\ \E token \in {"valid", "refreshed"} \cup TokenContinues :
       CASE token = "valid" -> pc' = "endpoint" /\ UNCHANGED <<storage, result>>
         [] token = "refreshed" ->
              /\ pc' = "endpoint"
              /\ UNCHANGED result
              /\ Save(Snapshot(accounts, currentAccountIndex))
         [] OTHER ->
              /\ pc' = "select"
              /\ result' = Ended(token, 0)
              /\ UNCHANGED storage
  /\ round' = <<>>
  /\ UNCHANGED <<accounts, currentIndex, currentAccountIndex, now, callNo, iter, account,
                 accountCount, ep, lastResponse, lastError, sleepLeft, sleepStep, backoffHist, aborted, outcome, switches,
                 firstAttempt, startActive, pending429, after429, poolHist, callEnv, xformVars, extraVars>>

\* lines 278-310: one HTTP attempt of the round, at endpoint ep with the selected account;
\* `transformedInit` carries init.signal (request.ts:178), and fetch rejects when it is
\* aborted
Attempt(o) ==
  /\ pc = "endpoint"
  /\ aborted => o.threw
  /\ firstAttempt' = IF firstAttempt = 0 THEN accounts[account + 1].id ELSE firstAttempt

\* the attempt as the history keeps it
Recorded(o) == [endpoint |-> Endpoints[ep + 1], threw |-> o.threw, status |-> o.status]

\* tryEndpointFallbacks returns or throws: its locals are gone
RoundOver == ep' = 0 /\ lastResponse' = 0 /\ lastError' = FALSE

\* mutant: every endpoint counts as having one after it
HasNextEndpointAlways(i) == TRUE

\* `i < CODE_ASSIST_ENDPOINT_FALLBACKS.length - 1`
HasNextEndpoint(i) == i < LastEndpoint

\* `continue` in the for loop of line 274: i++ and the test of the loop.  Past the last
\* endpoint the loop is left: lines 347-351 return all-failed with the last response or
\* the last error, and lines 507-531 return that response or throw
Continue(response, error) ==
  IF ep + 1 < Len(Endpoints)
    THEN /\ ep' = ep + 1
         /\ lastResponse' = response
         /\ lastError' = error
         /\ result' = NoResult
         /\ UNCHANGED <<pc, outcome>>
    ELSE /\ RoundOver
         /\ result' = Ended("all-failed", response)
         /\ pc' = "idle"
         /\ outcome' = IF response # 0 THEN [kind |-> "response", status |-> response]
                       ELSE [kind |-> "thrown", status |-> 0]

\* mutant: the exception is swallowed and the loop selects again
ThrowSwallowed == pc' = "select" /\ UNCHANGED outcome

\* the call ends by throwing
Throw == pc' = "idle" /\ outcome' = [kind |-> "thrown", status |-> 0]

\* mutant: an exception on the last endpoint sends the loop back to the selection
FetchThrewRetries ==
  /\ \E o \in FetchOutcomes :
       /\ o.threw
       /\ Attempt(o)
       /\ round' = Append(round, Recorded(o))
  /\ IF ep < LastEndpoint
       THEN /\ lastError' = TRUE /\ ep' = ep + 1 /\ UNCHANGED <<pc, outcome, lastResponse>>
            /\ result' = NoResult
       ELSE /\ pc' = "select" /\ RoundOver /\ UNCHANGED outcome
            /\ result' = Ended("threw", 0)
  /\ pending429' = NoPending429
  /\ after429' = NoAfter429
  /\ UNCHANGED <<accounts, currentIndex, currentAccountIndex, now, storage, callNo, iter,
                 account, accountCount, sleepLeft, sleepStep, backoffHist, aborted, switches,
                 startActive, poolHist, callEnv, xformVars, extraVars>>

\* lines 338-344: the attempt threw; the next endpoint is tried, the last one rethrows
FetchThrew ==
  /\ \E o \in FetchOutcomes :
       /\ o.threw
       /\ Attempt(o)
       /\ round' = Append(round, Recorded(o))
  /\ IF HasNextEndpoint(ep)
       THEN Continue(lastResponse, TRUE)
       ELSE /\ Throw /\ RoundOver
            /\ result' = Ended("threw", 0)
  /\ pending429' = NoPending429
  /\ after429' = NoAfter429
  /\ UNCHANGED <<accounts, currentIndex, currentAccountIndex, now, storage, callNo, iter,
                 account, accountCount, sleepLeft, sleepStep, backoffHist, aborted, switches,
                 startActive, poolHist, callEnv, xformVars, extraVars>>

\* lines 137-161 and 467-473: a 429 with a single account: mark, save, sleep, retry
FetchRateLimitedSingle ==
  /\ accountCount = 1
  /\ \E o \in FetchOutcomes :
       /\ ~o.threw /\ o.status = 429
       /\ Attempt(o)
       /\ LET retryAfterMs == ParseRetryAfterMs(o.headers)
              marked == MarkRateLimitedR(accounts, account, retryAfterMs, now)
              waitMs == OrElse(retryAfterMs,
                               OrElse(GetMinWaitTime(marked, now), SingleAccountWaitMs))
          IN /\ accounts' = marked
             /\ Save(Snapshot(marked, currentAccountIndex))
             /\ after429' = [seen |-> TRUE, headers |-> o.headers, at |-> now]
             /\ result' = Ended("rate-limit", 429)
             /\ StartSleep(waitMs)
  /\ RoundOver
  /\ round' = <<>>
  /\ pending429' = NoPending429
  /\ UNCHANGED <<currentIndex, currentAccountIndex, now, callNo, iter, account,
                 accountCount, aborted, outcome, switches, startActive, poolHist, callEnv, xformVars, extraVars>>

\* mutant: the brief 429 marks the account as the longer one does
FetchRateLimitedBrieflyMarks ==
  /\ accountCount # 1
  /\ \E o \in FetchOutcomes :
       /\ ~o.threw /\ o.status = 429
       /\ ParseRetryAfterMs(o.headers) <= SwitchThresholdMs
       /\ Attempt(o)
       /\ result' = EndedRetrySoon(ParseRetryAfterMs(o.headers))
       /\ StartSleep(ParseRetryAfterMs(o.headers))
       /\ accounts' = MarkRateLimitedR(accounts, account, ParseRetryAfterMs(o.headers), now)
  /\ RoundOver
  /\ round' = <<>>
  /\ pending429' = NoPending429
  /\ after429' = NoAfter429
  /\ UNCHANGED <<currentIndex, currentAccountIndex, now, storage, callNo, iter,
                 account, accountCount, aborted, outcome, switches, startActive,
                 poolHist, callEnv, xformVars, extraVars>>

\* lines 163-185: a 429 with several accounts and a retry-after of at most 5 s: the
\* account is not marked, the call sleeps and retries (retry-soon)
FetchRateLimitedBriefly ==
  /\ accountCount # 1
  /\ \E o \in FetchOutcomes :
       /\ ~o.threw /\ o.status = 429
       /\ ParseRetryAfterMs(o.headers) <= SwitchThresholdMs
       /\ Attempt(o)
       /\ result' = EndedRetrySoon(ParseRetryAfterMs(o.headers))
       /\ StartSleep(ParseRetryAfterMs(o.headers))
  /\ RoundOver
  /\ round' = <<>>
  /\ pending429' = NoPending429
  /\ after429' = NoAfter429
  /\ UNCHANGED <<accounts, currentIndex, currentAccountIndex, now, storage, callNo, iter,
                 account, accountCount, aborted, outcome, switches, startActive, 
                 poolHist, callEnv, xformVars, extraVars>>

\* lines 187-214 and 467-473: a 429 with several accounts and a longer retry-after: the
\* account is marked and saved, and the loop selects again
FetchRateLimitedSwitch ==
  /\ accountCount # 1
  /\ \E o \in FetchOutcomes :
       /\ ~o.threw /\ o.status = 429
       /\ ParseRetryAfterMs(o.headers) > SwitchThresholdMs
       /\ Attempt(o)
       /\ LET marked == MarkRateLimitedR(accounts, account, ParseRetryAfterMs(o.headers), now)
          IN /\ accounts' = marked
             /\ Save(Snapshot(marked, currentAccountIndex))
             /\ pending429' = [id |-> accounts[account + 1].id, headers |-> o.headers,
                               alternative |-> Len(AvailableOf(marked, now)) > 0]
             /\ result' = Ended("rate-limit", 429)
  /\ RoundOver
  /\ round' = <<>>
  /\ pc' = "select"
  /\ after429' = NoAfter429
  /\ UNCHANGED <<currentIndex, currentAccountIndex, now, callNo, iter, account,
                 accountCount, sleepLeft, sleepStep, backoffHist, aborted, outcome, switches,
                 startActive, poolHist, callEnv, xformVars, extraVars>>

\* lines 326-328 and 217-255: a 5xx on the last endpoint: the account is marked for 60 s;
\* the toast shown with several accounts is not guarded, its failure ends the call
FetchServerErrorLast ==
  /\ ep = LastEndpoint
  /\ LET marked == MarkRateLimitedR(accounts, account, ServerErrorRetryAfterMs, now) IN
       /\ accounts' = marked
       /\ \E o \in FetchOutcomes, toastShown \in BOOLEAN :
            /\ ~o.threw /\ o.status # 429 /\ o.status >= 500
            /\ Attempt(o)
            /\ accountCount = 1 => toastShown
            /\ IF toastShown
                 THEN /\ Save(Snapshot(marked, currentAccountIndex))
                      /\ IF accountCount = 1
                           THEN StartSleep(OrElse(ServerErrorRetryAfterMs,
                                  OrElse(GetMinWaitTime(marked, now), SingleAccountWaitMs)))
                           ELSE pc' = "select" /\ UNCHANGED <<sleepLeft, sleepStep, backoffHist>>
                      /\ round' = <<>>
                      /\ result' = Ended("rate-limit", o.status)
                      /\ UNCHANGED outcome
                 ELSE /\ Throw
                      /\ round' = Append(round, Recorded(o))
                      /\ result' = Ended("threw", o.status)
                      /\ UNCHANGED <<storage, sleepLeft, sleepStep, backoffHist>>
  /\ RoundOver
  /\ pending429' = NoPending429
  /\ after429' = NoAfter429
  /\ UNCHANGED <<currentIndex, currentAccountIndex, now, callNo, iter, account,
                 accountCount, aborted, switches, startActive, poolHist,
                 callEnv, xformVars, extraVars>>

\* mutant: a failing endpoint costs the account a cooldown
FetchNextEndpointMarks ==
  /\ ep < LastEndpoint
  /\ \E o \in FetchOutcomes :
       /\ ~o.threw /\ o.status # 429 /\ ShouldRetryEndpoint(o.status)
       /\ Attempt(o)
       /\ round' = Append(round, Recorded(o))
       /\ lastResponse' = o.status
  /\ ep' = ep + 1
  /\ result' = NoResult
  /\ pending429' = NoPending429
  /\ after429' = NoAfter429
  /\ accounts' = MarkRateLimitedR(accounts, account, ServerErrorRetryAfterMs, now)
  /\ UNCHANGED <<currentIndex, currentAccountIndex, now, storage, pc, callNo,
                 iter, account, accountCount, lastError, sleepLeft, sleepStep, backoffHist, aborted,
                 outcome, switches, startActive, poolHist, callEnv, xformVars, extraVars>>

\* lines 330-335: 403, 404 or 5xx before the last endpoint: the next endpoint is tried
FetchNextEndpoint ==
  /\ HasNextEndpoint(ep)
  /\ \E o \in FetchOutcomes :
       /\ ~o.threw /\ o.status # 429 /\ ShouldRetryEndpoint(o.status)
       /\ ~(o.status >= 500 /\ ep = LastEndpoint)
       /\ Attempt(o)
       /\ round' = Append(round, Recorded(o))
       /\ Continue(o.status, lastError)
  /\ pending429' = NoPending429
  /\ after429' = NoAfter429
  /\ UNCHANGED <<accounts, currentIndex, currentAccountIndex, now, storage, callNo,
                 iter, account, accountCount, sleepLeft, sleepStep, backoffHist, aborted,
                 switches, startActive, poolHist, callEnv, xformVars, extraVars>>

\* mutant: the caller gets a 200 whatever the endpoint answered
FetchSuccessAlways200 ==
  /\ \E o \in FetchOutcomes, toastShown \in BOOLEAN :
       /\ ~o.threw /\ o.status # 429
       /\ ~(o.status >= 500 /\ ep = LastEndpoint)
       /\ ~(ShouldRetryEndpoint(o.status) /\ ep < LastEndpoint)
       /\ Attempt(o)
       /\ ~saveFails => toastShown
       /\ round' = Append(round, Recorded(o))
       /\ result' = Ended("success", o.status)
       /\ outcome' = IF toastShown THEN [kind |-> "response", status |-> 200]
                     ELSE [kind |-> "thrown", status |-> 0]
  /\ Save(Snapshot(accounts, currentAccountIndex))
  /\ RoundOver
  /\ pc' = "idle"
  /\ pending429' = NoPending429
  /\ after429' = NoAfter429
  /\ UNCHANGED <<accounts, currentIndex, currentAccountIndex, now, callNo, iter, account,
                 accountCount, sleepLeft, sleepStep, backoffHist, aborted, switches, startActive,
                 poolHist, callEnv, xformVars, extraVars>>

\* lines 337 and 476-505: any other response ends the round with the result success: the
\* auth and the snapshot are saved and the response is returned; when the save fails the
\* catch block shows a toast that is not guarded, and its failure ends the call
FetchSuccess ==
  /\ \E o \in FetchOutcomes, toastShown \in BOOLEAN :
       /\ ~o.threw /\ o.status # 429
       /\ ~(o.status >= 500 /\ ep = LastEndpoint)
       /\ ~(ShouldRetryEndpoint(o.status) /\ HasNextEndpoint(ep))
       /\ Attempt(o)
       /\ ~saveFails => toastShown
       /\ round' = Append(round, Recorded(o))
       /\ result' = Ended("success", o.status)
       /\ outcome' = IF toastShown THEN [kind |-> "response", status |-> o.status]
                     ELSE [kind |-> "thrown", status |-> 0]
  /\ Save(Snapshot(accounts, currentAccountIndex))
  /\ RoundOver
  /\ pc' = "idle"
  /\ pending429' = NoPending429
  /\ after429' = NoAfter429
  /\ UNCHANGED <<accounts, currentIndex, currentAccountIndex, now, callNo, iter, account,
                 accountCount, sleepLeft, sleepStep, backoffHist, aborted, switches, startActive, poolHist, callEnv, xformVars, extraVars>>

\* mutant: past the end of the list the steps start over
StepMsWraps(stepIndex) == StepsMs[(stepIndex % Len(StepsMs)) + 1]

\* `stepsMs[stepIndex] ?? stepsMs[stepsMs.length - 1] ?? 30000`
StepMs(stepIndex) ==
  IF stepIndex < Len(StepsMs) THEN StepsMs[stepIndex + 1] ELSE StepsMs[Len(StepsMs)]

\* sleepWithBackoff: one `await sleep(waitMs, signal)` of its loop; an aborted signal
\* rejects and the call throws
SleepStep ==
  /\ pc = "sleep"
  /\ IF aborted
       THEN Throw /\ UNCHANGED <<now, sleepLeft, sleepStep, backoffHist>>
       ELSE LET stepMs == StepMs(sleepStep)
                waitMs == IF sleepLeft < stepMs THEN sleepLeft ELSE stepMs
            IN /\ sleepLeft' = sleepLeft - waitMs
               /\ sleepStep' = sleepStep + 1
               /\ slept' = Append(slept, waitMs)
               /\ sleepTotal' = sleepTotal
               /\ now' = now + waitMs + (IF sleepLeft = waitMs THEN late ELSE 0)
               /\ pc' = IF sleepLeft = waitMs THEN "select" ELSE "sleep"
               /\ UNCHANGED outcome
  /\ UNCHANGED <<accounts, currentIndex, currentAccountIndex, storage, callNo, iter,
                 account, accountCount, ep, lastResponse, lastError, aborted, callHist,
                 poolHist, callEnv, xformVars, extraVars>>

\* the caller aborts init.signal while the call sleeps
Abort ==
  /\ pc = "sleep"
  /\ ~aborted
  /\ aborted' = TRUE
  /\ UNCHANGED <<accounts, currentIndex, currentAccountIndex, now, storage, pc, callNo,
                 iter, account, accountCount, ep, lastResponse, lastError, sleepLeft,
                 sleepStep, backoffHist, outcome, callHist, poolHist, callEnv, xformVars, extraVars>>

FetchNext ==
  \/ StartCall
  \/ SelectAccount
  \/ EnsureToken
  \/ FetchThrew
  \/ FetchRateLimitedSingle
  \/ FetchRateLimitedBriefly
  \/ FetchRateLimitedSwitch
  \/ FetchServerErrorLast
  \/ FetchNextEndpoint
  \/ FetchSuccess
  \/ SleepStep
  \/ Abort

SpecFetch == FetchInit /\ [][FetchNext]_vars

\* the caller aborts init.signal while the call awaits a save, a token refresh or a
\* fetch
AbortInFlight ==
  /\ pc \in {"select", "token", "endpoint"}
  /\ ~aborted
  /\ aborted' = TRUE
  /\ UNCHANGED <<accounts, currentIndex, currentAccountIndex, now, storage, pc, callNo,
                 iter, account, accountCount, ep, lastResponse, lastError, sleepLeft,
                 sleepStep, backoffHist, outcome, callHist, poolHist, callEnv, xformVars,
                 extraVars>>

CancelNext == FetchNext \/ AbortInFlight

\* the call, with a caller that may cancel it at any moment
SpecCancel == FetchInit /\ [][CancelNext]_vars

\* ------------------------- createAntigravityFetch: a pool with a healthy account

MaxNow == 5000

\* the healthy account: the last one of the pool; every account before it is troubled
Healthy(i) == accounts[i + 1].id = Len(accounts)

\* two or more accounts, none rate-limited; the store and the TUI work
ProgressInit ==
  /\ FetchInit
  /\ Len(accounts) >= 2
  /\ ~saveFails

\* line 380, `while (true)`: one selection of the loop
ProgressSelect == Selection /\ UNCHANGED iter

\* lines 428-447: the token of the healthy account is valid or can be refreshed; the
\* refresh for a troubled account may fail
ProgressToken ==
  /\ EnsureToken
  /\ Healthy(account) => pc' = "endpoint"

\* a troubled account is answered 429 with a brief retry-after
ProgressRateLimitedBriefly ==
  /\ FetchRateLimitedBriefly
  /\ ~Healthy(account)
  /\ sleepTotal' > 0 => now < MaxNow

\* a troubled account is answered 429 with a longer retry-after
ProgressRateLimitedSwitch == FetchRateLimitedSwitch /\ ~Healthy(account)

\* a troubled account is answered 5xx by an endpoint before the last
ProgressNextEndpoint ==
  /\ FetchNextEndpoint
  /\ ~Healthy(account)
  /\ round'[Len(round')].status >= 500

\* a troubled account is answered 5xx by the last endpoint
ProgressServerErrorLast ==
  /\ FetchServerErrorLast
  /\ ~Healthy(account)
  /\ outcome' = outcome

\* the healthy account is answered 200
ProgressSuccess ==
  /\ FetchSuccess
  /\ Healthy(account)
  /\ outcome' = [kind |-> "response", status |-> 200]

\* the steps of a call in flight
ProgressStep ==
  \/ ProgressSelect
  \/ ProgressToken
  \/ ProgressRateLimitedBriefly
  \/ ProgressRateLimitedSwitch
  \/ ProgressNextEndpoint
  \/ ProgressServerErrorLast
  \/ ProgressSuccess
  \/ SleepStep

ProgressNext == StartCall \/ ProgressStep

\* the calls of a caller that never cancels; a call in flight is always continued
SpecProgress == ProgressInit /\ [][ProgressNext]_vars /\ WF_vars(ProgressStep)

\* ------------------------------------- createAntigravityFetch: calls side by side

MaxRounds == 2

\* two logical calls in flight
CallIds == {1, 2}

\* a call that has not started
IdleCall ==
  [pc |-> "idle", accs |-> <<>>, cursor |-> 0, cai |-> -1, account |-> -1,
   accountCount |-> 0, iter |-> 0]

\* the retryAfterMs a round hands to markRateLimited: of a 429, or the 60 s of a 5xx
MarkDurations ==
  {ParseRetryAfterMs(h) : h \in RetryAfterHeaders} \cup {ServerErrorRetryAfterMs}

\* the stored accounts, none rate-limited, and no call started
ConcurrentInit ==
  /\ \E n \in 1..MaxAccounts :
       accounts = [i \in 1..n |-> NewAccount(i, i - 1, "none")]
  /\ storage = Snapshot(accounts, -1)
  /\ currentIndex = 0
  /\ currentAccountIndex = -1
  /\ now = 0
  /\ lastOp = <<"init">>
  /\ ret = 0
  /\ run = <<>>
  /\ saveFails = FALSE
  /\ late = 0
  /\ NoCall
  /\ NoTransform
  /\ NoSignatures
  /\ NoTools
  /\ NoRequest
  /\ NoPayload
  /\ NoStream
  /\ calls = [c \in CallIds |-> IdleCall]

\* what the steps of the calls in flight leave alone
ConcurrentFrame ==
  UNCHANGED <<accounts, currentIndex, currentAccountIndex, lastOp, ret, run, pc, callNo,
              iter, account, accountCount, ep, lastResponse, lastError, sleepLeft,
              sleepStep, aborted, saveFails, late, outcome, callHist, backoffHist,
              xformVars, cacheVars, toolVars, prepareVars, payloadVars, sseVars>>

\* lines 365-378: call c loads the snapshot and builds its own AccountManager
ConcurrentStart(c) ==
  /\ calls[c].pc = "idle"
  /\ LET m == ConstructFrom(LoadAccounts(storage))
     IN calls' = [calls EXCEPT ![c] =
                    [pc |-> "select", accs |-> m.accs, cursor |-> m.cursor, cai |-> m.cai,
                     account |-> -1, accountCount |-> Len(m.accs), iter |-> 0]]
  /\ UNCHANGED <<storage, now>>
  /\ ConcurrentFrame

\* lines 381-426: one selection of call c on its own pool; with no account it sleeps
\* and selects again, and a switch is saved
ConcurrentSelect(c) ==
  /\ calls[c].pc = "select"
  /\ calls[c].iter < MaxRounds
  /\ LET v == calls[c]
         previousAccount == GetCurrentAccount(v.accs, v.cai)
         r == GetCurrentOrNextR(v.accs, v.cursor, v.cai, now)
     IN IF r.idx = -1
          THEN /\ calls' = [calls EXCEPT ![c] =
                              [v EXCEPT !.accs = r.accs, !.cursor = r.cursor,
                                        !.cai = r.cai, !.account = -1, !.iter = @ + 1]]
               /\ now' = now + OrElse(GetMinWaitTime(r.accs, now), AllLimitedWaitMs)
               /\ UNCHANGED storage
          ELSE LET isSwitch == previousAccount = -1 \/ previousAccount # r.idx
                   switchReason ==
                     IF previousAccount # -1
                       THEN IF r.accs[previousAccount + 1].isRateLimited
                              THEN "rate-limit" ELSE "rotation"
                       ELSE "initial"
                   switched == IF isSwitch THEN MarkSwitchedR(r.accs, r.idx, switchReason)
                               ELSE r.accs
                   pointer == IF isSwitch THEN r.accs[r.idx + 1].index ELSE r.cai
               IN /\ calls' = [calls EXCEPT ![c] =
                                 [v EXCEPT !.accs = switched, !.cursor = r.cursor,
                                           !.cai = pointer, !.account = r.idx,
                                           !.iter = @ + 1, !.pc = "attempt"]]
                  /\ storage' = IF isSwitch THEN Snapshot(switched, pointer) ELSE storage
                  /\ UNCHANGED now
  /\ ConcurrentFrame

\* handleRateLimit (lines 137-161, 184-214) and handleServerError: the round of call c
\* ends with rate-limit: the account is marked in the call's pool, the pool is saved,
\* and a single-account call sleeps (lines 467-474)
ConcurrentRateLimit(c) ==
  /\ calls[c].pc = "attempt"
  /\ \E retryAfterMs \in MarkDurations :
       LET v == calls[c]
           marked == MarkRateLimitedR(v.accs, v.account, retryAfterMs, now)
       IN /\ v.accountCount = 1 \/ retryAfterMs > SwitchThresholdMs
          /\ calls' = [calls EXCEPT ![c] = [v EXCEPT !.accs = marked, !.pc = "select"]]
          /\ storage' = Snapshot(marked, v.cai)
          /\ now' = IF v.accountCount = 1
                      THEN now + OrElse(retryAfterMs,
                                        OrElse(GetMinWaitTime(marked, now), SingleAccountWaitMs))
                      ELSE now
  /\ ConcurrentFrame

\* lines 476-504: the round of call c ends with a response; the pool is saved
ConcurrentSuccess(c) ==
  /\ calls[c].pc = "attempt"
  /\ calls' = [calls EXCEPT ![c].pc = "done"]
  /\ storage' = Snapshot(calls[c].accs, calls[c].cai)
  /\ UNCHANGED now
  /\ ConcurrentFrame

ConcurrentNext ==
  \E c \in CallIds :
    \/ ConcurrentStart(c)
    \/ ConcurrentSelect(c)
    \/ ConcurrentRateLimit(c)
    \/ ConcurrentSuccess(c)

SpecConcurrent == ConcurrentInit /\ [][ConcurrentNext]_vars

\* ------------------------------------------------- sleepWithBackoff by itself

MaxBackoffSteps == 7
MaxSleeps == 2

\* the time the first n steps of the list take together
RECURSIVE StepsTotal(_)
StepsTotal(n) == IF n = 0 THEN 0 ELSE StepsTotal(n - 1) + StepMs(n - 1)

\* the `totalMs` arguments: around every multiple of whole steps, negative ones included
TotalsMs == {StepsTotal(n) + d : n \in 0..MaxBackoffSteps, d \in {-1, 0, 1}}

BackoffInit ==
  /\ PoolAtRest
  /\ NoTransform
  /\ NoExtra

\* `await sleepWithBackoff(totalMs, signal)` is called, with no sleep in progress
SleepWithBackoffCall ==
  /\ pc # "sleep"
  /\ callNo < MaxSleeps
  /\ callNo' = callNo + 1
  /\ \E totalMs \in TotalsMs : StartSleep(totalMs)
  /\ UNCHANGED <<accounts, currentIndex, currentAccountIndex, now, storage, iter, account,
                 accountCount, ep, lastResponse, lastError, aborted, outcome, callHist,
                 poolHist, callEnv, xformVars, extraVars>>

BackoffNext == SleepWithBackoffCall \/ SleepStep

\* the timer of every sleep() fires
SpecBackoff == BackoffInit /\ [][BackoffNext]_vars /\ WF_vars(SleepStep)

\* --------------------------------------------- request transforms: the steps

TransformInit ==
  /\ accounts = <<NewAccount(1, 0, "none")>>
  /\ storage = Snapshot(accounts, -1)
  /\ currentIndex = 0
  /\ currentAccountIndex = -1
  /\ now = 0
  /\ lastOp = <<"init">>
  /\ ret = 0
  /\ run = <<>>
  /\ saveFails = FALSE
  /\ late = 0
  /\ NoCall
  /\ payload \in Payloads
  /\ out = <<>>
  /\ cache = EmptyCache
  /\ responses = 0
  /\ trail = <<>>
  /\ NoExtra

\* a response of the family's backend carries a reasoning part with text and signature:
\* it is cached under the family, the active session and the text
CacheFromResponse ==
  /\ responses < MaxCached
  /\ \E family \in Families, text \in Texts \ {""} :
       cache' = CacheSignature(cache, family, ActiveSession, text, IssuedBy(family))
  /\ responses' = responses + 1
  /\ UNCHANGED <<payload, out, trail, poolVars, fetchVars, extraVars>>

\* transformClaudeRequest(context, requestPayload) with context.family = "claude"
TransformClaudeRequest ==
  /\ Len(trail) < MaxHops
  /\ LET st == ClaudeContents([cache |-> cache, queues |-> [nm \in Names |-> <<>>],
                               parts |-> <<>>, contents |-> <<>>],
                              payload, "claude", ActiveSession)
     IN /\ out' = st.contents
        /\ cache' = st.cache
  /\ trail' = Append(trail, "claude")
  /\ UNCHANGED <<payload, responses, poolVars, fetchVars, extraVars>>

\* transformGeminiRequest(context, requestPayload) with context.family = "gemini"
TransformGeminiRequest ==
  /\ Len(trail) < MaxHops
  /\ out' = GeminiContents(cache, payload, "gemini", ActiveSession)
  /\ trail' = Append(trail, "gemini")
  /\ UNCHANGED <<payload, cache, responses, poolVars, fetchVars, extraVars>>

TransformNext ==
  \/ CacheFromResponse
  \/ TransformClaudeRequest
  \/ TransformGeminiRequest

SpecTransform == TransformInit /\ [][TransformNext]_vars

\* the transforms of a history of tool calls and their responses
PairingInit ==
  /\ accounts = <<NewAccount(1, 0, "none")>>
  /\ storage = Snapshot(accounts, -1)
  /\ currentIndex = 0
  /\ currentAccountIndex = -1
  /\ now = 0
  /\ lastOp = <<"init">>
  /\ ret = 0
  /\ run = <<>>
  /\ saveFails = FALSE
  /\ late = 0
  /\ NoCall
  /\ \E len \in 1..MaxToolParts : \E ps \in [1..len -> ToolChoices] : \E k \in 1..len :
       payload = ToolPayload(ps, k)
  /\ out = <<>>
  /\ cache = EmptyCache
  /\ responses = 0
  /\ trail = <<>>
  /\ NoExtra

PairingNext ==
  \/ TransformClaudeRequest
  \/ TransformGeminiRequest

SpecPairing == PairingInit /\ [][PairingNext]_vars

\* ------------------------------------- cache.ts: the thinking signature cache

MaxStr == 1
MaxPuts == 3

\* the characters of session ids and thought texts: the separator and another one
Chars == {":", "a"}

\* strings, as sequences of characters
Strings == UNION {[1..n -> Chars] : n \in 0..MaxStr}

\* session ids: one character, and the same followed by the separator
SessionIds == {<<"a">>, <<"a", ":">>}

\* signature strings
Signatures == {"sig1", "sig2"}

\* getSignatureKey: sha256 of `${sessionId}:${thoughtText}`; the digest is taken to be
\* one-to-one on its input, so the key is the input
GetSignatureKey(sessionId, thoughtText) == sessionId \o <<":">> \o thoughtText

\* Map.set
MapSet(m, key, value) ==
  [k \in DOMAIN m \cup {key} |-> IF k = key THEN value ELSE m[k]]

\* Map.get: <<>> for undefined
MapGet(m, key) == IF key \in DOMAIN m THEN <<m[key]>> ELSE <<>>

SignatureInit ==
  /\ PoolAtRest
  /\ NoTransform
  /\ NoSignatures
  /\ NoConcurrent
  /\ NoStream
  /\ NoPayload
  /\ NoTools
  /\ NoRequest

\* cacheSignature(sessionId, thoughtText, signature)
CacheSignatureCall(sessionId, thoughtText, signature) ==
  /\ Cardinality(DOMAIN puts) < MaxPuts
  /\ signatureCache' = MapSet(signatureCache, GetSignatureKey(sessionId, thoughtText), signature)
  /\ puts' = MapSet(puts, <<sessionId, thoughtText>>, signature)
  /\ UNCHANGED <<got, poolVars, fetchVars, xformVars, toolVars, prepareVars, concurrentVars, payloadVars, sseVars>>

\* getCachedSignature(sessionId, thoughtText)
GetCachedSignatureCall(sessionId, thoughtText) ==
  /\ got' = MapGet(signatureCache, GetSignatureKey(sessionId, thoughtText))
  /\ UNCHANGED <<signatureCache, puts, poolVars, fetchVars, xformVars, toolVars,
                 prepareVars, concurrentVars, payloadVars, sseVars>>

SignatureNext ==
  \/ \E sessionId \in SessionIds, thoughtText \in Strings, signature \in Signatures :
       CacheSignatureCall(sessionId, thoughtText, signature)
  \/ \E sessionId \in SessionIds, thoughtText \in Strings :
       GetCachedSignatureCall(sessionId, thoughtText)

SpecSignature == SignatureInit /\ [][SignatureNext]_vars

\* ------------------------------------------- gemini.ts: tool name sanitization

MaxName == 2
MaxTools == 2
MaxPasses == 2

\* the characters of tool names: a digit, a letter and the underscore
NameChars == {"1", "t", "_"}

\* /^[0-9]/
Digits == {"1"}

\* tool names, as sequences of characters
ToolNames == UNION {[1..n -> NameChars] : n \in 0..MaxName}

\* mutant: every name is prefixed
SanitizeToolNameAlways(name) == <<"t", "_">> \o name

\* sanitizeToolNameForGemini(name)
SanitizeToolNameForGemini(name) ==
  IF name # <<>> /\ name[1] \in Digits THEN <<"t", "_">> \o name ELSE name

ToolsInit ==
  /\ PoolAtRest
  /\ NoTransform
  /\ NoSignatures
  /\ NoConcurrent
  /\ NoStream
  /\ NoPayload
  /\ NoRequest
  /\ \E n \in 0..MaxTools : toolNames \in [1..n -> ToolNames]
  /\ originalNames = toolNames
  /\ passes = 0

\* sanitizeToolNames(payload): every declared function name is sanitized in place
SanitizeToolNames ==
  /\ passes < MaxPasses
  /\ toolNames' = [i \in DOMAIN toolNames |-> SanitizeToolNameForGemini(toolNames[i])]
  /\ passes' = passes + 1
  /\ UNCHANGED <<originalNames, poolVars, fetchVars, xformVars, cacheVars, prepareVars, concurrentVars, payloadVars, sseVars>>

ToolsNext == SanitizeToolNames

SpecTools == ToolsInit /\ [][ToolsNext]_vars

\* ------------------------------------- request.ts: prepareAntigravityRequest

\* model names of the URL, as their dash-separated tokens; <<>> for a URL without
\* a /models/<model>:<action> segment
RawModels ==
  {<<"gemini", "claude", "sonnet", "4", "5", "thinking">>,
   <<"gemini", "claude", "sonnet", "4", "5">>,
   <<"claude", "opus", "4", "5", "thinking">>,
   <<"gemini", "3", "pro", "preview">>,
   <<>>}

\* MODEL_ALIASES, MODEL_FALLBACKS and resolveModelName
ResolveModelName(rawModel) ==
  IF rawModel = <<"gemini", "claude", "sonnet", "4", "5", "thinking">>
    THEN <<"claude", "sonnet", "4", "5", "thinking">>
  ELSE IF rawModel = <<"gemini", "claude", "sonnet", "4", "5">>
    THEN <<"claude", "sonnet", "4", "5">>
  ELSE IF rawModel = <<"gemini", "3", "pro", "preview">>
    THEN <<"gemini", "3", "pro", "high">>
  ELSE rawModel

\* String.includes on a model name, by token
Includes(name, token) == \E i \in DOMAIN name : name[i] = token

StreamAction == "streamGenerateContent"

Actions == {StreamAction, "generateContent"}

\* the tokens of an anthropic-beta header value, comma-separated; <<>> for no header
BetaValues ==
  {<<>>,
   <<"prompt-caching-2024-07-31">>,
   <<"interleaved-thinking-2025-05-14">>,
   <<"prompt-caching-2024-07-31", "interleaved-thinking-2025-05-14">>}

\* the headers a caller sends: each is a value, or <<>> when the header is not set
CallerHeaders ==
  {[h \in {"authorization", "x-api-key", "anthropic-beta", "accept", "user-agent"} |->
      IF h = "anthropic-beta" THEN beta
      ELSE IF h = "x-api-key" THEN key
      ELSE <<>>] :
     beta \in BetaValues, key \in {<<>>, <<"caller-key">>}}

PrepareInit ==
  /\ PoolAtRest
  /\ NoTransform
  /\ NoSignatures
  /\ NoConcurrent
  /\ NoStream
  /\ NoPayload
  /\ NoTools
  /\ request \in [generativeLanguage : BOOLEAN, model : RawModels, action : Actions,
                   headers : CallerHeaders]
  /\ prepared = <<>>

\* prepareAntigravityRequest(input, init, accessToken, projectId) for a body with
\* empty contents: the URL and the headers of the result
PrepareAntigravityRequest ==
  /\ prepared = <<>>
  /\ prepared' =
       IF ~request.generativeLanguage
         THEN [url |-> "input", headers |-> request.headers, streaming |-> FALSE]
       ELSE LET authorized == [request.headers EXCEPT !["authorization"] = <<"Bearer">>,
                                                      !["x-api-key"] = <<>>]
                streaming == request.action = StreamAction
            IN IF request.model = <<>>
                 THEN [url |-> "input", headers |-> authorized, streaming |-> FALSE]
                 ELSE [url |-> "v1internal",
                       headers |-> [authorized EXCEPT
                                      !["accept"] = IF streaming THEN <<"text/event-stream">>
                                                    ELSE @,
                                      !["user-agent"] = <<"antigravity">>],
                       streaming |-> streaming]
  /\ UNCHANGED <<request, poolVars, fetchVars, xformVars, cacheVars, toolVars, concurrentVars, payloadVars, sseVars>>

PrepareNext == PrepareAntigravityRequest

SpecPrepare == PrepareInit /\ [][PrepareNext]_vars

\* ------------------------- transformClaudeRequest: generationConfig (thinking)

\* an optional field: <<>> for undefined, <<v>> for the value v
Optional(S) == {<<>>} \cup {<<v>> : v \in S}

\* context.model of the Claude transformer, as dash-separated tokens
ClaudeModels ==
  {<<"claude", "sonnet", "4", "5", "thinking">>,
   <<"claude", "opus", "4", "5", "thinking">>,
   <<"claude", "sonnet", "4", "5">>,
   <<"gemini", "claude", "sonnet", "4", "5">>}

\* thinkingBudget values of the caller (thinkingBudget ?? thinking_budget)
Budgets == {-1, 0, 1024, 16384, 63999, 64000, 100000}

\* maxOutputTokens / max_output_tokens values of the caller
MaxOutputs == {0, 1024, 16384, 16385, 64000, 64001, 200000}

\* `const newMax = 64000`
SafeMaxOutputTokens == 64000

\* `thinkingBudget: 16384, // Default to 16k for thinking models`
DefaultThinkingBudget == 16384

\* a thinkingConfig without any key
NoThinking ==
  [thinkingBudget |-> <<>>, thinkingLevel |-> <<>>, includeThoughts |-> <<>>,
   include_thoughts |-> <<>>, thinking_budget |-> <<>>]

\* generationConfig.thinkingConfig as the caller may send it
ThinkingConfigs ==
  Optional({[NoThinking EXCEPT !.thinkingBudget = b, !.thinkingLevel = l,
                               !.includeThoughts = i] :
              b \in Optional(Budgets), l \in Optional({"high"}), i \in Optional(BOOLEAN)})

\* requestPayload.generationConfig as the caller may send it
GenerationConfigs ==
  Optional({[thinkingConfig |-> t, maxOutputTokens |-> m, max_output_tokens |-> s] :
              t \in ThinkingConfigs, m \in Optional(MaxOutputs),
              s \in Optional({1024, 200000})})

\* the payload fields the transformers consolidate, all absent
NoCachedContent ==
  [cached_content |-> <<>>, cachedContent |-> <<>>, extra_body |-> <<>>]

\* normalizeThinkingConfig(config): undefined without a config or without any of the
\* three keys, else the keys that are set
NormalizeThinkingConfig(config) ==
  IF config = <<>> THEN <<>>
  ELSE IF /\ config[1].thinkingBudget = <<>>
          /\ config[1].thinkingLevel = <<>>
          /\ config[1].includeThoughts = <<>>
         THEN <<>>
         ELSE <<[NoThinking EXCEPT !.thinkingBudget = config[1].thinkingBudget,
                                   !.thinkingLevel = config[1].thinkingLevel,
                                   !.includeThoughts = config[1].includeThoughts]>>

\* `context.model.includes("-thinking")`
IsThinkingModel(model) == \E i \in 2..Len(model) : model[i] = "thinking"

\* `a ?? b` on optional fields
Coalesce(a, b) == IF a # <<>> THEN a ELSE b

\* `budget && (!currentMax || currentMax <= budget)`
NeedsBump(currentMax, budget) ==
  budget # 0 /\ (currentMax = <<>> \/ currentMax[1] = 0 \/ currentMax[1] <= budget)

\* lines 239-312: the generationConfig of a thinking model
ThinkingGenerationConfig(rawGenerationConfig) ==
  LET given == NormalizeThinkingConfig(IF rawGenerationConfig = <<>> THEN <<>>
                                       ELSE rawGenerationConfig[1].thinkingConfig)
      normalizedThinking ==
        IF given = <<>>
          THEN [NoThinking EXCEPT !.thinkingBudget = <<DefaultThinkingBudget>>,
                                  !.include_thoughts = <<TRUE>>]
          ELSE [given[1] EXCEPT
                  !.include_thoughts = IF @ = <<>> THEN <<TRUE>> ELSE @,
                  !.thinkingBudget = IF @ = <<>> \/ @ = <<0>>
                                       THEN <<DefaultThinkingBudget>> ELSE @]
      budget == normalizedThinking.thinkingBudget[1]
      finalThinkingConfig ==
        [NoThinking EXCEPT
           !.include_thoughts = Coalesce(normalizedThinking.include_thoughts, <<TRUE>>),
           !.thinking_budget = IF budget # 0 THEN <<budget>> ELSE <<>>]
  IN IF rawGenerationConfig # <<>>
       THEN LET raw == rawGenerationConfig[1]
                currentMax == Coalesce(raw.maxOutputTokens, raw.max_output_tokens)
            IN IF NeedsBump(currentMax, budget)
                 THEN <<[thinkingConfig |-> <<finalThinkingConfig>>,
                         maxOutputTokens |-> <<SafeMaxOutputTokens>>,
                         max_output_tokens |-> <<>>]>>
                 ELSE <<[raw EXCEPT !.thinkingConfig = <<finalThinkingConfig>>]>>
       ELSE <<[thinkingConfig |-> <<finalThinkingConfig>>,
               maxOutputTokens |-> IF budget # 0 THEN <<SafeMaxOutputTokens>> ELSE <<>>,
               max_output_tokens |-> <<>>]>>

\* lines 317-328: the generationConfig of a model that does not think
PlainGenerationConfig(rawGenerationConfig) ==
  LET normalizedThinking ==
        NormalizeThinkingConfig(IF rawGenerationConfig = <<>> THEN <<>>
                                ELSE rawGenerationConfig[1].thinkingConfig)
  IN IF normalizedThinking # <<>>
       THEN IF rawGenerationConfig # <<>>
              THEN <<[rawGenerationConfig[1] EXCEPT !.thinkingConfig = normalizedThinking]>>
              ELSE <<[thinkingConfig |-> normalizedThinking, maxOutputTokens |-> <<>>,
                      max_output_tokens |-> <<>>]>>
       ELSE IF rawGenerationConfig # <<>>
              THEN <<[rawGenerationConfig[1] EXCEPT !.thinkingConfig = <<>>]>>
              ELSE <<>>

\* lines 504-509: the Sonnet 4.5 fallback loses its thinkingConfig
WithoutThinkingOfFallback(model, generationConfig) ==
  IF model = <<"gemini", "claude", "sonnet", "4", "5">> /\ generationConfig # <<>>
    THEN <<[generationConfig[1] EXCEPT !.thinkingConfig = <<>>]>>
    ELSE generationConfig

\* a Claude request with some model and some generationConfig, not yet transformed
ThinkingInit ==
  /\ PoolAtRest
  /\ NoTransform
  /\ NoSignatures
  /\ NoTools
  /\ NoRequest
  /\ NoConcurrent
  /\ NoStream
  /\ \E model \in ClaudeModels, generationConfig \in GenerationConfigs :
       requestPayload = [model |-> model, generationConfig |-> generationConfig,
                         cached |-> NoCachedContent]
  /\ transformed = <<>>

\* transformClaudeRequest(context, requestPayload): what it does to generationConfig
TransformClaudeGenerationConfig ==
  /\ transformed = <<>>
  /\ LET raw == requestPayload.generationConfig
         generationConfig ==
           IF IsThinkingModel(requestPayload.model) THEN ThinkingGenerationConfig(raw)
           ELSE PlainGenerationConfig(raw)
     IN transformed' =
          <<[requestPayload EXCEPT
               !.generationConfig =
                  WithoutThinkingOfFallback(requestPayload.model, generationConfig)]>>
  /\ UNCHANGED <<requestPayload, poolVars, fetchVars, xformVars, cacheVars, toolVars,
                 prepareVars, concurrentVars, sseVars>>

ThinkingNext == TransformClaudeGenerationConfig

SpecThinking == ThinkingInit /\ [][ThinkingNext]_vars

\* ------------------------------- the transformers: the cached-content reference

\* cached-content references of the caller; the empty string is a value too
CachedRefs == {"", "cachedContents/a", "cachedContents/b"}

\* requestPayload.extra_body: its two cached-content keys and whether it has other keys
ExtraBodies ==
  Optional({[cached_content |-> s, cachedContent |-> c, others |-> o] :
              s \in Optional(CachedRefs), c \in Optional(CachedRefs), o \in BOOLEAN})

\* the cached-content fields of requestPayload as the caller may send them
CachedContents ==
  {[cached_content |-> s, cachedContent |-> c, extra_body |-> e] :
     s \in Optional(CachedRefs), c \in Optional(CachedRefs), e \in ExtraBodies}

\* the transformer the request goes to
Transformers == {"claude", "gemini"}

\* gemini.ts lines 101-122, claude.ts lines 86-107 (the same statements): the reference
\* is looked up and assigned to cachedContent when it is truthy; then cached_content and
\* cachedContent are deleted, and the two keys in extra_body, and an empty extra_body
ConsolidateCachedContent(given) ==
  LET cachedContentFromExtra ==
        IF given.extra_body # <<>>
          THEN Coalesce(given.extra_body[1].cached_content, given.extra_body[1].cachedContent)
          ELSE <<>>
      cachedContent ==
        Coalesce(given.cached_content, Coalesce(given.cachedContent, cachedContentFromExtra))
      assigned ==
        IF cachedContent # <<>> /\ cachedContent[1] # ""
          THEN [given EXCEPT !.cachedContent = cachedContent]
          ELSE given
      deleted == [assigned EXCEPT !.cached_content = <<>>, !.cachedContent = <<>>]
  IN IF deleted.extra_body = <<>>
       THEN deleted
       ELSE IF deleted.extra_body[1].others
              THEN [deleted EXCEPT !.extra_body[1].cached_content = <<>>,
                                   !.extra_body[1].cachedContent = <<>>]
              ELSE [deleted EXCEPT !.extra_body = <<>>]

\* a request with some cached-content fields, for some transformer, not yet transformed
CachedInit ==
  /\ PoolAtRest
  /\ NoTransform
  /\ NoSignatures
  /\ NoTools
  /\ NoRequest
  /\ NoConcurrent
  /\ NoStream
  /\ \E family \in Transformers, cached \in CachedContents :
       requestPayload = [model |-> <<family>>, generationConfig |-> <<>>, cached |-> cached]
  /\ transformed = <<>>

\* transformClaudeRequest: what it does to the cached-content fields
TransformClaudeCachedContent ==
  /\ transformed = <<>>
  /\ requestPayload.model = <<"claude">>
  /\ transformed' =
       <<[requestPayload EXCEPT !.cached = ConsolidateCachedContent(requestPayload.cached)]>>
  /\ UNCHANGED <<requestPayload, poolVars, fetchVars, xformVars, cacheVars, toolVars,
                 prepareVars, concurrentVars, sseVars>>

\* transformGeminiRequest: what it does to the cached-content fields
TransformGeminiCachedContent ==
  /\ transformed = <<>>
  /\ requestPayload.model = <<"gemini">>
  /\ transformed' =
       <<[requestPayload EXCEPT !.cached = ConsolidateCachedContent(requestPayload.cached)]>>
  /\ UNCHANGED <<requestPayload, poolVars, fetchVars, xformVars, cacheVars, toolVars,
                 prepareVars, concurrentVars, sseVars>>

CachedNext == TransformClaudeCachedContent \/ TransformGeminiCachedContent

SpecCached == CachedInit /\ [][CachedNext]_vars

\* ------------------------------------- request.ts: createSseTransformStream

MaxSseLen == 4

\* the pieces a stream text is made of.  A line is what stands between two "\n".
\* Wrapped is the JSON text of an object with a response field, Failed the JSON text of
\* an object with an error that the error handler rewrites; "x" is any other text.
NewLine == "\n"
Wrapped == "{response}"
Failed == "{error}"
SsePieces == {NewLine, "data:", " ", Wrapped, Failed, "x"}

\* JSON.stringify(body.response) and JSON.stringify(rewritten)
Unwrapped == "response"
Rewritten == "rewritten"

\* the texts an upstream may stream
SseTexts == UNION {[1..n -> SsePieces] : n \in 0..MaxSseLen}

\* the index of the first "\n" of the text, 0 without one
RECURSIVE FirstNewLine(_, _)
FirstNewLine(text, from) ==
  IF from > Len(text) THEN 0
  ELSE IF text[from] = NewLine THEN from ELSE FirstNewLine(text, from + 1)

\* `text.split("\n")`
RECURSIVE SplitLines(_)
SplitLines(text) ==
  LET i == FirstNewLine(text, 1)
  IN IF i = 0 THEN <<text>>
     ELSE <<SubSeq(text, 1, i - 1)>> \o SplitLines(SubSeq(text, i + 1, Len(text)))

\* `lines.join("\n")`
RECURSIVE JoinLines(_)
JoinLines(lines) ==
  IF Len(lines) = 0 THEN <<>>
  ELSE IF Len(lines) = 1 THEN lines[1]
  ELSE lines[1] \o <<NewLine>> \o JoinLines(Tail(lines))

\* String.trim
RECURSIVE Trim(_)
Trim(str) ==
  IF str = <<>> THEN str
  ELSE IF str[1] = " " THEN Trim(Tail(str))
  ELSE IF str[Len(str)] = " " THEN Trim(SubSeq(str, 1, Len(str) - 1))
  ELSE str

\* transformSseLine(line, onError): a data line whose JSON carries an error the handler
\* rewrites, or a response, is replaced; JSON.parse throws on anything else
TransformSseLine(line) ==
  IF line = <<>> \/ line[1] # "data:" THEN line
  ELSE LET json == Trim(Tail(line))
       IN IF json = <<>> THEN line
          ELSE IF json = <<Failed>> THEN <<"data:", " ", Rewritten>>
          ELSE IF json = <<Wrapped>> THEN <<"data:", " ", Unwrapped>>
          ELSE line

\* `transformed + "\n"` of every line, concatenated
RECURSIVE EnqueueLines(_)
EnqueueLines(lines) ==
  IF lines = <<>> THEN <<>>
  ELSE TransformSseLine(lines[1]) \o <<NewLine>> \o EnqueueLines(Tail(lines))

\* transformStreamingPayload(payload, onError)
TransformStreamingPayload(text) ==
  LET lines == SplitLines(text)
  IN JoinLines([i \in DOMAIN lines |-> TransformSseLine(lines[i])])

\* mutant: the held line is passed on as it is
FlushedRaw(held) == held

\* flush(controller): what is enqueued for the held line
Flushed(held) == IF Len(held) > 0 THEN TransformSseLine(held) ELSE <<>>

\* a response starts streaming some text
SseInit ==
  /\ PoolAtRest
  /\ NoTransform
  /\ NoSignatures
  /\ NoTools
  /\ NoRequest
  /\ NoConcurrent
  /\ NoPayload
  /\ sseText \in SseTexts
  /\ sseRest = sseText
  /\ buffer = <<>>
  /\ enqueued = <<>>
  /\ flushed = FALSE

\* transform(chunk, controller), for the next chunk of the text, of any length
SseTransform ==
  /\ ~flushed
  /\ \E n \in 1..Len(sseRest) :
       LET chunk == SubSeq(sseRest, 1, n)
           lines == SplitLines(buffer \o chunk)
       IN /\ sseRest' = SubSeq(sseRest, n + 1, Len(sseRest))
          /\ buffer' = lines[Len(lines)]
          /\ enqueued' = enqueued \o EnqueueLines(SubSeq(lines, 1, Len(lines) - 1))
  /\ UNCHANGED <<sseText, flushed, poolVars, fetchVars, xformVars, cacheVars, toolVars,
                 prepareVars, concurrentVars, payloadVars>>

\* flush(controller), when the upstream has ended
SseFlush ==
  /\ ~flushed
  /\ sseRest = <<>>
  /\ enqueued' = enqueued \o Flushed(buffer)
  /\ flushed' = TRUE
  /\ UNCHANGED <<sseText, sseRest, buffer, poolVars, fetchVars, xformVars, cacheVars,
                 toolVars, prepareVars, concurrentVars, payloadVars>>

SseNext == SseTransform \/ SseFlush

SpecSse == SseInit /\ [][SseNext]_vars

\* ------------------------------------------------------------------ claims

\* position (0-based) of the account of identity id in the pool
PosOf(accs, id) == (CHOOSE i \in DOMAIN accs : accs[i].id = id) - 1

\* C1: with N accounts none of which is rate-limited and no markRateLimited/add/remove in
\* between, N consecutive getNext calls return each account exactly once, each call
\* returning the account that follows the previous one in insertion order (cyclically).
C1_RoundRobin ==
  /\ \A k \in DOMAIN run : run[k] \in IdsOf(accounts)
  /\ \A k \in 1..(Len(run) - 1) :
       PosOf(accounts, run[k + 1]) = (PosOf(accounts, run[k]) + 1) % Len(accounts)
  /\ Len(run) = Len(accounts) => {run[k] : k \in DOMAIN run} = IdsOf(accounts)
  /\ Len(run) <= Len(accounts)

C1_Witness ==
  /\ Len(accounts) = 3
  /\ run = <<2, 3, 1>>
  /\ lastOp = <<"getNext">>

\* an account inside its cooldown window: flagged, and now < markedAt + d
InsideCooldown(a, t) == a.isRateLimited /\ t < a.rateLimitResetTime

\* C2: a selection (getNext or getCurrentOrNext) never returns an account at a time
\* now < t + d of its cooldown, and at every time now >= t + d (now = t + d included) the
\* account is selectable again: a pool with such an account does not answer null, and
\* the account returned has its isRateLimited flag cleared.
C2_CooldownExpiry ==
  [][(GetNextCall \/ GetCurrentOrNextCall) =>
       /\ \A i \in DOMAIN accounts :
            InsideCooldown(accounts[i], now) => ret' # accounts[i].id
       /\ (\E i \in DOMAIN accounts : ~InsideCooldown(accounts[i], now)) =>
            /\ ret' # 0
            /\ ~accounts'[PosOf(accounts', ret') + 1].isRateLimited]_vars

\* the part of C2 the code keeps: no account is returned inside its cooldown, and the
\* account returned has its flag cleared
C2_NeverInsideCooldown ==
  [][(GetNextCall \/ GetCurrentOrNextCall) =>
       /\ \A i \in DOMAIN accounts :
            InsideCooldown(accounts[i], now) => ret' # accounts[i].id
       /\ ret' # 0 => ~accounts'[PosOf(accounts', ret') + 1].isRateLimited]_vars

\* C3: with a current account that is not rate-limited, getCurrentOrNext returns that
\* account and leaves the current pointer and the round-robin cursor unchanged, whatever
\* the rate-limit state of the other accounts.
C3_StickyPreference ==
  [][(/\ GetCurrentOrNextCall
      /\ currentAccountIndex >= 0 /\ currentAccountIndex < Len(accounts)
      /\ ~accounts[currentAccountIndex + 1].isRateLimited) =>
       /\ ret' = accounts[currentAccountIndex + 1].id
       /\ currentAccountIndex' = currentAccountIndex
       /\ currentIndex' = currentIndex
       /\ accounts' = accounts]_vars

\* a sticky selection made while another account is inside its cooldown and the cursor
\* would have picked a different account
C3_Witness ==
  /\ lastOp = <<"getCurrentOrNext", "sticky">>
  /\ ret = accounts[currentAccountIndex + 1].id
  /\ \E i \in DOMAIN accounts : InsideCooldown(accounts[i], now)
  /\ Len(AvailableOf(accounts, now)) > 0
  /\ PickAvailable(AvailableOf(accounts, now), currentIndex).id # ret

\* ------------------------------------------------- claims on the fetch loop

\* C4: a call that follows a call which saved its state makes its first HTTP attempt with
\* the account that was current in the saved snapshot, provided that account is not
\* rate-limited there, whatever the stored rate-limit state of the other accounts.
C4_StickyAcrossCalls ==
  (callNo >= 2 /\ ~saveFails /\ firstAttempt # 0 /\ ~startActive.isRateLimited)
    => firstAttempt = startActive.id

\* the duration a 429 with headers h asks for: retry-after-ms in ms, else retry-after in
\* seconds, else the 60 s default
RetryAfterOf(h) ==
  IF h.ms # <<>> THEN h.ms[1] ELSE IF h.s # <<>> THEN 1000 * h.s[1] ELSE 60000

\* C5: with two or more accounts, a 429 on the current account A with a retry-after above
\* 5 s marks A (and only A) rate-limited until now + the parsed retry-after; when another
\* account is available then, the next HTTP attempt of the call is made with an account
\* other than A; and no HTTP attempt is made with an account inside its cooldown, so A is
\* not attempted again before its cooldown has elapsed.
C5_SwitchOn429 ==
  /\ [][FetchRateLimitedSwitch =>
          /\ RetryAfterOf(pending429'.headers) > 5000
          /\ pending429'.id = accounts[account + 1].id
          /\ accounts'[account + 1].isRateLimited
          /\ accounts'[account + 1].rateLimitResetTime
               = now + RetryAfterOf(pending429'.headers)
          /\ \A j \in DOMAIN accounts : j # account + 1 => accounts'[j] = accounts[j]]_vars
  /\ [](pc = "endpoint" =>
          /\ ~InsideCooldown(accounts[account + 1], now)
          /\ (pending429.id # 0 /\ pending429.alternative) =>
               accounts[account + 1].id # pending429.id)

\* account 1 answered 429 with retry-after 6 s at time 0 and is cooling; the call switched
\* to account 2 for the reason rate-limit and has made an HTTP attempt with it
C5_Witness ==
  /\ accountCount = 2
  /\ firstAttempt = 1
  /\ InsideCooldown(accounts[1], now)
  /\ accounts[1].rateLimitResetTime = 6000
  /\ switches = <<"initial", "rate-limit">>
  /\ pc = "endpoint"
  /\ account = 1
  /\ round # <<>>

\* C6: with exactly one account, a 429 carrying retry-after d marks the account
\* rate-limited until now + d and the call sleeps d; the retry with the same account
\* comes once d has been slept (the timer may fire late); and from the first selection
\* on, the current pointer never changes and no account switch is recorded.
C6_SingleAccountRetry ==
  /\ [][FetchRateLimitedSingle =>
          /\ accounts'[1].isRateLimited
          /\ accounts'[1].rateLimitResetTime = now + RetryAfterOf(after429'.headers)
          /\ sleepLeft' = RetryAfterOf(after429'.headers)]_vars
  /\ []((pc = "endpoint" /\ after429.seen) =>
          /\ account = 0
          /\ now - after429.at \in {RetryAfterOf(after429.headers) + j : j \in Jitter})
  /\ [][(accountCount = 1 /\ pc # "idle" /\ currentAccountIndex # -1) =>
          /\ currentAccountIndex' = currentAccountIndex
          /\ switches' = switches]_vars

\* the part of C6 the code keeps: the mark for d, and no switch after the first selection
C6_MarkedNoSwitch ==
  /\ [][FetchRateLimitedSingle =>
          /\ accounts'[1].isRateLimited
          /\ accounts'[1].rateLimitResetTime = now + RetryAfterOf(after429'.headers)]_vars
  /\ []((pc = "endpoint" /\ accountCount = 1) => account = 0)
  /\ [][(accountCount = 1 /\ pc # "idle" /\ currentAccountIndex # -1) =>
          /\ currentAccountIndex' = currentAccountIndex
          /\ switches' = switches]_vars

\* an attempt after which the round goes on to the next endpoint
FallsThrough(a) == a.threw \/ a.status = 403 \/ a.status = 404 \/ a.status >= 500

\* C7: within a round the endpoints are attempted in list order (daily, autopush, prod),
\* each at most once; an attempt is followed by another only if it ended with 403, 404,
\* 5xx or an exception; the first response with any other non-429 status ends the round,
\* which returns that response as its success result, and no later endpoint is
\* attempted; a response the call returns is the last one of its round.
C7_EndpointOrder ==
  /\ [](/\ Len(round) <= Len(Endpoints)
        /\ \A k \in DOMAIN round : round[k].endpoint = Endpoints[k]
        /\ \A k \in 1..(Len(round) - 1) : FallsThrough(round[k])
        /\ pc = "endpoint" =>
             /\ ep = Len(round)
             /\ \A k \in DOMAIN round : FallsThrough(round[k])
        /\ (pc = "idle" /\ outcome.kind = "response") =>
             /\ round # <<>>
             /\ ~round[Len(round)].threw
             /\ round[Len(round)].status = outcome.status
             /\ outcome.status # 429)
  /\ [][(/\ pc = "endpoint"
         /\ Len(round') = Len(round) + 1
         /\ ~FallsThrough(round'[Len(round')])
         /\ round'[Len(round')].status # 429) =>
          /\ pc' = "idle"
          /\ result'.type = "success"
          /\ result'.status = round'[Len(round')].status]_vars

\* 404 on daily, 404 on autopush, 200 on prod: the call returned the third response
C7_Witness ==
  /\ pc = "idle"
  /\ outcome = [kind |-> "response", status |-> 200]
  /\ round = <<[endpoint |-> "daily", threw |-> FALSE, status |-> 404],
               [endpoint |-> "autopush", threw |-> FALSE, status |-> 404],
               [endpoint |-> "prod", threw |-> FALSE, status |-> 200]>>

\* ------------------------------------------- claims on the request transforms

\* the identities of the parts of a turn
Ns(parts) == {parts[k].n : k \in DOMAIN parts}

\* the parts are in the order of their identities, the order they arrived in
Ordered(parts) == \A j, k \in DOMAIN parts : j < k => parts[j].n < parts[k].n

\* a part is a reasoning part
IsThought(p) == p.kind = "thought"

\* the signature the cache of the family holds for the text, NoSig for none
Held(c, family, text) == c[CacheKey(family, ActiveSession, text)]

\* the thought parts of a turn of the result that precede identity n and have the text
KeptBefore(parts, text, n) ==
  {k \in DOMAIN parts : IsThought(parts[k]) /\ parts[k].text = text /\ parts[k].n < n}

\* what a lookup for the text finds when the walk of the Claude transform reaches the
\* part of identity n: the signature of the last part kept before it under the same
\* text, else what the cache held when the transform began
FoundAt(c, parts, text, n) ==
  IF KeptBefore(parts, text, n) = {} THEN Held(c, "claude", text)
  ELSE parts[CHOOSE k \in KeptBefore(parts, text, n) :
               \A j \in KeptBefore(parts, text, n) : j <= k].sig

C9_ClaudeThoughts ==
  [][TransformClaudeRequest =>
       \A t \in DOMAIN payload :
         LET src == payload[t].parts
             res == out'[t].parts
         IN /\ Ordered(res)
            /\ \A k \in DOMAIN res : IsThought(res[k]) => res[k].sig.len > 50
            /\ \A i \in DOMAIN src :
                 IF ~IsThought(src[i]) THEN src[i].n \in Ns(res)
                 ELSE IF src[i].sig.len > 50
                   THEN \E k \in DOMAIN res : res[k].n = src[i].n /\ res[k].sig = src[i].sig
                 ELSE IF FoundAt(cache, res, src[i].text, src[i].n) # NoSig
                   THEN \E k \in DOMAIN res :
                          /\ res[k].n = src[i].n
                          /\ res[k].sig = FoundAt(cache, res, src[i].text, src[i].n)
                 ELSE src[i].n \notin Ns(res)]_vars

ArrivesSigned(contents, text) ==
  \E t \in DOMAIN contents : \E i \in DOMAIN contents[t].parts :
    /\ IsThought(contents[t].parts[i])
    /\ contents[t].parts[i].text = text
    /\ contents[t].parts[i].sig.len > 50

RECURSIVE Flat(_)
Flat(contents) ==
  IF contents = <<>> THEN <<>> ELSE Head(contents).parts \o Flat(Tail(contents))

\* positions of the function-call parts of a name
CallsOf(parts, nm) ==
  {j \in DOMAIN parts : parts[j].kind = "functionCall" /\ parts[j].name = nm}

\* positions of the function-response parts of a name that arrive without an id
BareResponsesOf(parts, nm) ==
  {j \in DOMAIN parts :
     parts[j].kind = "functionResponse" /\ parts[j].name = nm /\ parts[j].id = <<>>}

\* the rank of a position among the positions of a set
Rank(S, x) == Cardinality({y \in S : y <= x})

\* the position of rank k of a set
Nth(S, k) == CHOOSE x \in S : Rank(S, x) = k

\* C12 as stated: for each name the k-th function-response part without an id
\* receives the id of the k-th function-call part of that name, in order of
\* appearance; a response with no call of its name left receives none.
C12_PairingByRank ==
  [][TransformClaudeRequest =>
       LET src == Flat(payload)
           res == Flat(out')
       IN \A nm \in Names : \A r \in BareResponsesOf(src, nm) :
            LET k == Rank(BareResponsesOf(src, nm), r) IN
            IF k <= Cardinality(CallsOf(src, nm))
              THEN res[r].id = res[Nth(CallsOf(src, nm), k)].id
              ELSE res[r].id = <<>>]_vars

\* the bare responses of a name that were handed an id
Served(src, res, nm) == {r \in BareResponsesOf(src, nm) : res[r].id # <<>>}

\* C12 amended: for each name, a function-response part without an id receives the
\* id of the oldest function-call part of that name that appeared before it and was
\* not handed to an earlier response (so the k-th response that is handed an id has
\* the id of the k-th call), and receives none exactly when no such call is left;
\* no call id is handed to two responses; a call keeps its id or gains a fresh one,
\* and a response that arrived with an id keeps it.
C12_PairingFifo ==
  [][TransformClaudeRequest =>
       LET src == Flat(payload)
           res == Flat(out')
       IN /\ Len(res) = Len(src)
          /\ \A j \in DOMAIN src :
               /\ src[j].id # <<>> => res[j].id = src[j].id
               /\ src[j].kind = "functionCall" => res[j].id # <<>>
          /\ \A nm \in Names :
               /\ \A c, d \in CallsOf(src, nm) : c # d => res[c].id # res[d].id
               /\ \A r \in BareResponsesOf(src, nm) :
                    LET before == {c \in CallsOf(src, nm) : c < r}
                        served == {q \in Served(src, res, nm) : q < r}
                    IN IF Cardinality(before) > Cardinality(served)
                         THEN res[r].id =
                                res[Nth(CallsOf(src, nm), Cardinality(served) + 1)].id
                         ELSE res[r].id = <<>>
               /\ \A q, r \in Served(src, res, nm) : q # r => res[q].id # res[r].id]_vars

\* C12 witness: two calls "f" in the model turn and two responses "f" in the user
\* turn that follows, none with an id: each response has the id of the call of its
\* rank and the two ids differ
C12_Witness ==
  /\ trail = <<"claude">>
  /\ Len(payload) = 2
  /\ payload[1].parts = Numbered(<<Part("functionCall", "", NoSig, "f"),
                                   Part("functionCall", "", NoSig, "f")>>)
  /\ payload[2].parts = Numbered(<<Part("functionResponse", "", NoSig, "f"),
                                   Part("functionResponse", "", NoSig, "f")>>)
  /\ out[2].parts[1].id = out[1].parts[1].id
  /\ out[2].parts[2].id = out[1].parts[2].id
  /\ out[1].parts[1].id # out[1].parts[2].id
  /\ out[1].parts[1].id # <<>>

\* C13: signature cache round-trip. getCachedSignature(session, text) returns the
\* signature of the latest cacheSignature for that pair, and returns undefined for a
\* pair that was never put, whatever other pairs have been put.
C13_RoundTrip ==
  [][\A sessionId \in SessionIds, thoughtText \in Strings :
       GetCachedSignatureCall(sessionId, thoughtText) =>
         got' = MapGet(puts, <<sessionId, thoughtText>>)]_vars

\* C14: tool-name sanitization. A name beginning with a digit gains the prefix t_, a
\* name not beginning with a digit is returned unmodified, and sanitizing a name
\* that was already sanitized changes nothing.
C14_Sanitization ==
  /\ [][SanitizeToolNames =>
          /\ DOMAIN toolNames' = DOMAIN toolNames
          /\ \A i \in DOMAIN toolNames :
               IF Len(toolNames[i]) > 0 /\ toolNames[i][1] = "1"
                 THEN /\ Len(toolNames'[i]) = Len(toolNames[i]) + 2
                      /\ toolNames'[i][1] = "t"
                      /\ toolNames'[i][2] = "_"
                      /\ SubSeq(toolNames'[i], 3, Len(toolNames'[i])) = toolNames[i]
                 ELSE toolNames'[i] = toolNames[i]]_vars
  /\ [][(SanitizeToolNames /\ passes >= 1) => toolNames' = toolNames]_vars

\* C14 witness: the names "1t" and "t_" were sanitized twice: the first gained the
\* prefix once, the second is as declared
C14_Witness ==
  /\ passes = 2
  /\ originalNames = <<(<<"1", "t">>), (<<"t", "_">>)>>
  /\ toolNames = <<(<<"t", "_", "1", "t">>), (<<"t", "_">>)>>

Occurrences(value, token) == Cardinality({i \in DOMAIN value : value[i] = token})

\* C16: the anthropic-beta header of a prepared request. For a Claude model whose name
\* contains -thinking the header holds interleaved-thinking-2025-05-14 exactly once,
\* after the caller's tokens and not duplicated when the caller sent it; for a Claude
\* model that is not a thinking one the header is not added.
C16_InterleavedThinkingHeader ==
  [][(PrepareAntigravityRequest /\ request.generativeLanguage /\ request.model # <<>>
        /\ Includes(ResolveModelName(request.model), "claude")) =>
       LET sent == request.headers["anthropic-beta"]
           beta == prepared'.headers["anthropic-beta"]
           token == "interleaved-thinking-2025-05-14"
       IN IF Includes(ResolveModelName(request.model), "thinking")
            THEN /\ Occurrences(beta, token) = 1
                 /\ beta = IF Occurrences(sent, token) > 0 THEN sent
                            ELSE Append(sent, token)
            ELSE beta = sent]_vars

\* ------------------------------------------------- claims: the pool under management

\* C17: selection is total. getNext and getCurrentOrNext answer null (ret = 0) when every
\* account of the pool is inside its cooldown window (or the pool is empty), and only
\* then.
C17_SelectionTotal ==
  [][(GetNextCall \/ GetCurrentOrNextCall) =>
       ((ret' = 0) <=> \A i \in DOMAIN accounts : InsideCooldown(accounts[i], now))]_vars

\* an account the claim counts as available: not rate-limited, or its cooldown elapsed
Elapsed(a, t) == (~a.isRateLimited) \/ t >= a.rateLimitResetTime

\* C18: getMinWaitTime answers 0 if any account is available (not rate-limited, or its
\* cooldown has elapsed), otherwise the minimum over all accounts of
\* rateLimitResetTime - now (0 for an empty pool); it does not modify the pool.
C18_MinWaitTime ==
  [][GetMinWaitTimeCall =>
       /\ lastOp'[2] =
            IF \E i \in DOMAIN accounts : Elapsed(accounts[i], now) THEN 0
            ELSE IF accounts = <<>> THEN 0
            ELSE Min({accounts[i].rateLimitResetTime - now : i \in DOMAIN accounts})
       /\ accounts' = accounts
       /\ currentIndex' = currentIndex
       /\ currentAccountIndex' = currentAccountIndex]_vars

\* C18 witness: getMinWaitTime was asked of a pool of several accounts that are all
\* inside their cooldown, and answered the positive wait that remains
C18_Witness ==
  /\ lastOp = <<"getMinWaitTime", 1>>
  /\ Len(accounts) >= 2
  /\ \A i \in DOMAIN accounts : InsideCooldown(accounts[i], now)

\* C19: after a successful removeAccount(i), getCurrentAccount designates the account
\* it designated before the removal whenever that account was not the one removed, and
\* never designates a different account.
C19_RemoveKeepsCurrent ==
  [][(RemoveAccountCall /\ lastOp' = <<"removeAccount:true">>) =>
       LET before == GetCurrentAccount(accounts, currentAccountIndex)
           after  == GetCurrentAccount(accounts', currentAccountIndex')
       IN /\ (before >= 0 /\ IdOf(accounts, before) \in IdsOf(accounts')) =>
               (after >= 0 /\ IdOf(accounts', after) = IdOf(accounts, before))
          /\ after >= 0 =>
               (before >= 0 /\ IdOf(accounts', after) = IdOf(accounts, before))]_vars

\* C20: markRateLimited(account, d) sets the account's reset time to now + d, and on an
\* account that is already rate-limited the reset time after the call is never earlier
\* than the reset time before it.
C20_OnlyExtends ==
  [][MarkRateLimitedCall =>
       /\ \E i \in DOMAIN accounts, d \in Durations :
            accounts' = [accounts EXCEPT ![i].isRateLimited = TRUE,
                                         ![i].rateLimitResetTime = now + d]
       /\ \A i \in DOMAIN accounts :
            accounts[i].isRateLimited =>
              accounts'[i].rateLimitResetTime >= accounts[i].rateLimitResetTime]_vars

\* C20, amended: markRateLimited(account, d) sets the account's reset time to now + d
\* and leaves the other accounts alone; on an account that is already rate-limited the
\* reset time after the call is not earlier than the reset time before it when d is at
\* least the cooldown that remained (reset time - now), and is earlier otherwise.
C20_WindowReplaced ==
  [][MarkRateLimitedCall =>
       \E i \in DOMAIN accounts, d \in Durations :
         /\ accounts' = [accounts EXCEPT ![i].isRateLimited = TRUE,
                                         ![i].rateLimitResetTime = now + d]
         /\ accounts[i].isRateLimited =>
              ((accounts'[i].rateLimitResetTime >= accounts[i].rateLimitResetTime)
                 <=> (d >= accounts[i].rateLimitResetTime - now))
         /\ lastOp'[2] = (accounts[i].isRateLimited
                            /\ accounts'[i].rateLimitResetTime < accounts[i].rateLimitResetTime)]_vars

\* C20 witness: markRateLimited was called with d = 0 on an account that was rate-limited
\* until a later time; its reset time is now the time of the call
C20_Witness ==
  /\ lastOp = <<"markRateLimited", TRUE>>
  /\ \E i \in DOMAIN accounts :
       accounts[i].isRateLimited /\ accounts[i].rateLimitResetTime = now

\* ------------------------------------------------------- claims: the roster

\* C21: after any sequence of addAccount and removeAccount calls, with valid or invalid
\* indices, every account's index field is its position in the pool's list; and a
\* removeAccount with an out-of-range index reports failure and leaves the pool state
\* (the list, the cursor and the current pointer) unchanged.
C21_IndexInvariant ==
  /\ [](\A i \in DOMAIN accounts : accounts[i].index = i - 1)
  /\ [][RemoveAccountCall =>
          IF Len(accounts') = Len(accounts)
            THEN /\ lastOp' = <<"removeAccount:false">>
                 /\ UNCHANGED <<accounts, currentIndex, currentAccountIndex>>
            ELSE /\ lastOp' = <<"removeAccount:true">>
                 /\ Len(accounts') = Len(accounts) - 1]_vars

\* C21 witness: an account was added after the first account of the pool had been
\* removed, so that every remaining account has moved down
C21_Witness ==
  /\ lastOp = <<"addAccount">>
  /\ Len(accounts) >= 2
  /\ accounts[1].id > 1
  /\ accounts[Len(accounts)].index = Len(accounts) - 1

\* ------------------------------------------- claims on the outcomes of a round

\* C22: with more than one account, a 429 whose retry-after is at most 5 s makes the call
\* sleep for that duration and then retry the same endpoint attempt with the same
\* account: the account is not marked rate-limited, the current pointer does not change
\* and no switch is recorded.
C22_RetrySoonSameEndpoint ==
  /\ [][FetchRateLimitedBriefly =>
          /\ result'.type = "retry-soon" /\ result'.wait <= 5000
          /\ sleepLeft' = result'.wait
          /\ accounts' = accounts
          /\ currentAccountIndex' = currentAccountIndex
          /\ switches' = switches]_vars
  /\ [][(result.type = "retry-soon" /\ pc \in {"sleep", "select", "token"}) =>
          /\ currentAccountIndex' = currentAccountIndex
          /\ switches' = switches
          /\ accounts' = accounts]_vars
  /\ []((result.type = "retry-soon" /\ pc = "endpoint") =>
          /\ accounts[account + 1].id = result.id
          /\ ~accounts[account + 1].isRateLimited
          /\ now >= result.at + result.wait
          /\ ep = result.ep)

\* C22, amended: as C22, but the retry is a new round with the same account, which
\* starts again at the first endpoint of the list.
C22_RetrySoonSameAccount ==
  /\ [][FetchRateLimitedBriefly =>
          /\ result'.type = "retry-soon" /\ result'.wait <= 5000
          /\ sleepLeft' = result'.wait
          /\ accounts' = accounts
          /\ currentAccountIndex' = currentAccountIndex
          /\ switches' = switches]_vars
  /\ [][(result.type = "retry-soon" /\ pc \in {"sleep", "select", "token"}) =>
          /\ currentAccountIndex' = currentAccountIndex
          /\ switches' = switches
          /\ accounts' = accounts]_vars
  /\ []((result.type = "retry-soon" /\ pc = "endpoint") =>
          /\ accounts[account + 1].id = result.id
          /\ ~accounts[account + 1].isRateLimited
          /\ now >= result.at + result.wait
          /\ ep = 0)

\* C22 witness: with several accounts, the second endpoint answered 429 with
\* retry-after-ms 5000; the call has slept and is about to attempt again, with the
\* account it had, at the first endpoint
C22_Witness ==
  /\ accountCount >= 2
  /\ pc = "endpoint"
  /\ result.type = "retry-soon"
  /\ result.ep = 1
  /\ result.wait = 5000
  /\ now >= 5000
  /\ ep = 0
  /\ accounts[account + 1].id = result.id

\* C23: a 5xx response from the last endpoint is treated as a rate limit with a fixed
\* 60 s cooldown: the account is marked rate-limited until now + 60000, the response is
\* not returned to the caller, and the loop goes on: with several accounts the next
\* selection rotates to another account when one is available, with one account the
\* call sleeps before it retries.
C23_ServerErrorAsRateLimit ==
  /\ [][FetchServerErrorLast =>
          /\ accounts'[account + 1].isRateLimited
          /\ accounts'[account + 1].rateLimitResetTime = now + 60000
          /\ \A j \in DOMAIN accounts : j # account + 1 => accounts'[j] = accounts[j]
          /\ outcome' = outcome
          /\ result'.type = "rate-limit"
          /\ pc' = IF accountCount = 1 THEN "sleep" ELSE "select"]_vars
  /\ [][(SelectAccount /\ result.type = "rate-limit" /\ result.status >= 500
           /\ \E j \in DOMAIN accounts : j # account + 1 /\ IsAvailable(accounts[j], now)) =>
          /\ account' # -1
          /\ account' # account]_vars

\* C24: a 403, 404 or 5xx response from an endpoint that is not the last makes the round
\* go on with the next endpoint and leaves the pool untouched: no account is marked
\* rate-limited, the current pointer and the round-robin cursor are unchanged, and
\* nothing is persisted.
C24_NextEndpointFrame ==
  [][(/\ pc = "endpoint"
      /\ ep < LastEndpoint
      /\ Len(round') = Len(round) + 1
      /\ ~round'[Len(round')].threw
      /\ round'[Len(round')].status \in {403, 404, 500}) =>
       /\ pc' = "endpoint"
       /\ ep' = ep + 1
       /\ account' = account
       /\ accounts' = accounts
       /\ currentAccountIndex' = currentAccountIndex
       /\ currentIndex' = currentIndex
       /\ storage' = storage
       /\ switches' = switches
       /\ outcome' = outcome]_vars

\* C24 witness: the first endpoint answered 500 and the second 403; the call is about to
\* attempt the last endpoint, with no account rate-limited and the snapshot it had when
\* it selected the account
C24_Witness ==
  /\ pc = "endpoint"
  /\ ep = LastEndpoint
  /\ round = <<[endpoint |-> "daily", threw |-> FALSE, status |-> 500],
               [endpoint |-> "autopush", threw |-> FALSE, status |-> 403]>>
  /\ \A i \in DOMAIN accounts : ~accounts[i].isRateLimited
  /\ ~saveFails
  /\ storage = Snapshot(accounts, currentAccountIndex)

\* the step is an HTTP attempt that was answered (the fetch did not throw)
Answered ==
  /\ pc = "endpoint"
  /\ IF Len(round') = Len(round) + 1 THEN ~round'[Len(round')].threw
     ELSE result'.status # 0

\* the status of the response that answered the attempt
AnsweredStatus ==
  IF Len(round') = Len(round) + 1 THEN round'[Len(round')].status ELSE result'.status

C26_TransportException ==
  /\ [][(/\ pc = "endpoint"
         /\ Len(round') = Len(round) + 1
         /\ round'[Len(round')].threw) =>
          IF ep < LastEndpoint
            THEN /\ pc' = "endpoint"
                 /\ ep' = ep + 1
                 /\ account' = account
                 /\ accounts' = accounts
                 /\ outcome' = outcome
            ELSE /\ pc' = "idle"
                 /\ outcome' = [kind |-> "thrown", status |-> 0]
                 /\ accounts' = accounts
                 /\ storage' = storage]_vars
  /\ [][(round # <<>> /\ round[Len(round)].threw /\ Len(round) = Len(Endpoints)) =>
          \/ callNo' = callNo + 1
          \/ UNCHANGED <<pc, iter, round, outcome, account>>]_vars

\* C26 witness: the first endpoint threw, the second answered 404 and the last threw;
\* the call has ended by throwing
C26_Witness ==
  /\ pc = "idle"
  /\ outcome = [kind |-> "thrown", status |-> 0]
  /\ result.type = "threw"
  /\ round = <<[endpoint |-> "daily", threw |-> TRUE, status |-> 0],
               [endpoint |-> "autopush", threw |-> FALSE, status |-> 404],
               [endpoint |-> "prod", threw |-> TRUE, status |-> 0]>>

\* the step is the attempt of the last endpoint, after every earlier endpoint of the
\* round failed
LastAttempt == pc = "endpoint" /\ ep = LastEndpoint

\* C27: if in one round every endpoint fails for the current account (each returns 403,
\* 404 or 5xx, or throws), the call ends, returning the last-seen response or raising the
\* exception; the loop does not retry.
C27_AllFailedTerminal ==
  [][(/\ LastAttempt
      /\ \/ ~Answered
         \/ AnsweredStatus \in {403, 404, 500}) =>
       /\ pc' = "idle"
       /\ outcome'.kind \in {"response", "thrown"}
       /\ outcome'.kind = "response" => outcome'.status = AnsweredStatus]_vars

\* C27, amended: if in one round every endpoint fails for the current account and the
\* failure of the last endpoint is a 403, a 404 or an exception, the call ends, returning
\* that response or raising the exception; the loop does not retry.
C27_AllFailedUnlessServerError ==
  /\ [][(/\ LastAttempt
         /\ \/ ~Answered
            \/ AnsweredStatus \in {403, 404}) =>
          /\ pc' = "idle"
          /\ outcome'.kind \in {"response", "thrown"}
          /\ outcome'.kind = "response" => outcome'.status = AnsweredStatus
          /\ ~Answered => outcome'.kind = "thrown"
          /\ accounts' = accounts]_vars
  /\ [][(pc = "idle" /\ Len(round) = Len(Endpoints)) =>
          \/ callNo' = callNo + 1
          \/ UNCHANGED <<pc, iter, round, outcome, account>>]_vars

\* C27 witness: the three endpoints answered 500, an exception and 403; the call ended
\* and the caller received the 403
C27_Witness ==
  /\ pc = "idle"
  /\ outcome = [kind |-> "response", status |-> 403]
  /\ round = <<[endpoint |-> "daily", threw |-> FALSE, status |-> 500],
               [endpoint |-> "autopush", threw |-> TRUE, status |-> 0],
               [endpoint |-> "prod", threw |-> FALSE, status |-> 403]>>

\* C28: a failed token refresh is transient and skips the account: the loop does not
\* crash and the account stays in the pool, and the next selection of the call does not
\* pick the same account again while another account is available.
C28_RefreshFailureSkips ==
  /\ [][(pc = "token" /\ result'.type = "refresh-failed") =>
          /\ pc' = "select"
          /\ accounts' = accounts
          /\ outcome' = outcome]_vars
  /\ [][(/\ SelectAccount
         /\ result.type = "refresh-failed"
         /\ \E j \in DOMAIN accounts : j # account + 1 /\ IsAvailable(accounts[j], now)) =>
          account' # account]_vars

\* the call waits because the selection found no account
NoAccountWait == pc = "sleep" /\ account = -1

\* C29: when the selection finds no account the call does not end: it sleeps for
\* getMinWaitTime(), or for 60 s when that is 0, and the wait is left only towards the
\* next selection, or by the exception of a cancelled sleep.
C29_NoAccountWait ==
  /\ [][(SelectAccount /\ account' = -1) =>
          /\ pc' = "sleep"
          /\ sleepLeft' = (IF GetMinWaitTime(accounts', now) = 0 THEN 60000
                           ELSE GetMinWaitTime(accounts', now))
          /\ outcome' = outcome]_vars
  /\ [][NoAccountWait =>
          \/ NoAccountWait' /\ outcome' = outcome
          \/ ~aborted /\ sleepLeft' = 0 /\ pc' = "select" /\ outcome' = outcome
          \/ aborted /\ pc' = "idle" /\ outcome'.kind = "thrown"]_vars
  /\ [][(pc = "select" /\ outcome.kind = "none") =>
          pc' \in {"select", "token", "sleep"} /\ outcome' = outcome]_vars

\* C29 witness: every account is limited and getMinWaitTime() is 0, so the call starts a
\* wait of 60 s
C29_Witness ==
  /\ NoAccountWait
  /\ sleepStep = 0
  /\ sleepLeft = AllLimitedWaitMs
  /\ GetMinWaitTime(accounts, now) = 0

\* C30: a failed save is not fatal: while every save fails, a step that saves (after a
\* switch, a token refresh, a mark, a success) does not make the call throw, and a
\* successful attempt still returns its response.
C30_PersistenceNonFatal ==
  /\ [][(saveFails /\ pc \in {"select", "token", "endpoint"} /\ outcome'.kind = "thrown") =>
          result'.type = "threw"]_vars
  /\ [][(saveFails /\ pc = "endpoint" /\ result'.type = "success") =>
          outcome' = [kind |-> "response", status |-> result'.status]]_vars

\* the cap of the k-th step, k from 1: 3 s, 5 s, 10 s, 20 s, then 30 s
CapOfStep(k) ==
  IF k = 1 THEN 3000 ELSE IF k = 2 THEN 5000 ELSE IF k = 3 THEN 10000
  ELSE IF k = 4 THEN 20000 ELSE 30000

\* the sum of the first n elements of a sequence of numbers
RECURSIVE SumFirst(_, _)
SumFirst(seq, n) == IF n = 0 THEN 0 ELSE SumFirst(seq, n - 1) + seq[n]

\* max(0, total)
AtLeastZero(total) == IF total > 0 THEN total ELSE 0

\* C31: sleepWithBackoff(total) sleeps in steps, the k-th as long as what remains but at
\* most its cap (3, 5, 10, 20 s, then 30 s); the steps add up to max(0, total) when it
\* returns; it returns for every total, and without sleeping when total <= 0.
C31_BackoffSteps ==
  /\ [](\A k \in DOMAIN slept :
          LET remaining == AtLeastZero(sleepTotal) - SumFirst(slept, k - 1)
          IN slept[k] = (IF remaining < CapOfStep(k) THEN remaining ELSE CapOfStep(k)))
  /\ [](pc # "sleep" => SumFirst(slept, Len(slept)) = AtLeastZero(sleepTotal))
  /\ [](sleepTotal <= 0 => pc # "sleep" /\ slept = <<>>)
  /\ [][pc = "sleep" => now' - now = slept'[Len(slept')]]_vars
  /\ (pc = "sleep") ~> (pc # "sleep")

\* C31 witness: a wait of 128001 ms has been slept in eight steps, the last of 1 ms
C31_Witness ==
  /\ pc # "sleep"
  /\ sleepTotal = 128001
  /\ slept = <<3000, 5000, 10000, 20000, 30000, 30000, 30000, 1>>

\* C32: cancellation is cooperative: once the signal is raised, the sleep in progress
\* rejects and no later step of it is slept, and the call starts no further selection,
\* token refresh or endpoint attempt: its next step ends it with the error.
C32_Cancellation ==
  [][(aborted /\ pc # "idle") =>
       /\ pc' = "idle"
       /\ outcome'.kind = "thrown"
       /\ slept' = slept
       /\ iter' = iter]_vars

\* C33: no lost update of the persisted pool: a save never erases from the stored
\* snapshot the rate-limit mark of an account whose cooldown has not run out (a mark
\* some call has persisted).
C33_NoLostUpdate ==
  [][\A i \in DOMAIN storage.accounts :
       (storage.accounts[i].isRateLimited /\ now' < storage.accounts[i].rateLimitResetTime) =>
         storage'.accounts[i].isRateLimited]_vars

\* the output-token ceiling a generationConfig carries, under either spelling
CeilingOf(generationConfig) ==
  Coalesce(generationConfig.maxOutputTokens, generationConfig.max_output_tokens)

\* C34: for a thinking model and any generationConfig of the caller, the transformed
\* generationConfig has the thoughts included, a thinking budget other than 0, and an
\* output-token ceiling strictly greater than that budget.
C34_ReasoningBudget ==
  (transformed # <<>> /\ IsThinkingModel(requestPayload.model)) =>
    LET generationConfig == transformed[1].generationConfig IN
    /\ generationConfig # <<>>
    /\ generationConfig[1].thinkingConfig # <<>>
    /\ generationConfig[1].thinkingConfig[1].include_thoughts = <<TRUE>>
    /\ generationConfig[1].thinkingConfig[1].thinking_budget # <<>>
    /\ generationConfig[1].thinkingConfig[1].thinking_budget # <<0>>
    /\ CeilingOf(generationConfig[1]) # <<>>
    /\ CeilingOf(generationConfig[1])[1] >
         generationConfig[1].thinkingConfig[1].thinking_budget[1]

\* the references the caller supplied, under any of the four fields
SuppliedRefs(given) ==
  {r \in CachedRefs \ {""} :
     \/ given.cached_content = <<r>>
     \/ given.cachedContent = <<r>>
     \/ /\ given.extra_body # <<>>
        /\ \/ given.extra_body[1].cached_content = <<r>>
           \/ given.extra_body[1].cachedContent = <<r>>}

\* C35: when the caller supplied a cached-content reference under any of the four
\* fields, the transformed payload carries a supplied reference under cachedContent;
\* cached_content and the two keys of extra_body are absent, and extra_body is removed
\* when nothing else is in it.
C35_CachedContent ==
  transformed # <<>> =>
    LET given == requestPayload.cached
        sent  == transformed[1].cached
    IN /\ SuppliedRefs(given) # {} =>
            sent.cachedContent # <<>> /\ sent.cachedContent[1] \in SuppliedRefs(given)
       /\ sent.cached_content = <<>>
       /\ sent.extra_body # <<>> =>
            /\ sent.extra_body[1].cached_content = <<>>
            /\ sent.extra_body[1].cachedContent = <<>>
            /\ sent.extra_body[1].others

\* the line is a data line whose JSON is the given piece
IsDataLineOf(line, piece) ==
  /\ Len(line) >= 2
  /\ line[1] = "data:"
  /\ \E i \in 2..Len(line) :
       line[i] = piece /\ \A j \in (2..Len(line)) \ {i} : line[j] = " "

\* the line as the stream has to pass it on: a response unwrapped, and with
\* withErrors an error rewritten by the handler; any other line unchanged
PassedOn(line, withErrors) ==
  IF IsDataLineOf(line, Wrapped) THEN <<"data:", " ", Unwrapped>>
  ELSE IF withErrors /\ IsDataLineOf(line, Failed) THEN <<"data:", " ", Rewritten>>
  ELSE line

\* the text, line by line as it has to be passed on
PassedOnText(text, withErrors) ==
  LET lines == SplitLines(text)
  IN JoinLines([i \in DOMAIN lines |-> PassedOn(lines[i], withErrors)])

\* the part of the text delivered to the stream so far
Delivered == SubSeq(sseText, 1, Len(sseText) - Len(sseRest))

\* what the stream has enqueued equals the line-by-line transform of the delivered
\* text up to its last line break, the rest is held; at the end all of it is enqueued
StreamAgrees(withErrors) ==
  LET lines == SplitLines(Delivered)
      whole == SubSeq(lines, 1, Len(lines) - 1)
      done  == JoinLines([i \in DOMAIN whole |-> PassedOn(whole[i], withErrors)])
                 \o (IF whole = <<>> THEN <<>> ELSE <<NewLine>>)
  IN /\ buffer = lines[Len(lines)]
     /\ ~flushed => enqueued = done
     /\ flushed => enqueued = PassedOnText(sseText, withErrors)

\* C36 as stated: however the text is cut into chunks, what the stream emits is the
\* line-by-line transform of the whole text, where a data line with a response is
\* replaced by data: <the response> and every other line is unchanged; the partial last
\* line is held across chunks and emitted once at the end.
C36_ChunkingUnwrapOnly == StreamAgrees(FALSE)

\* C36 amended: the same, where the line-by-line transform also replaces a data line
\* whose JSON carries an error the error handler rewrites by data: <the rewritten body>.
C36_ChunkingIndependent == StreamAgrees(TRUE)

\* C36 witness: the text ends with a partial data line, which was held and is emitted,
\* unwrapped, at the end
C36_Witness ==
  /\ flushed
  /\ sseText = <<"x", NewLine, "data:", Wrapped>>
  /\ buffer = <<"data:", Wrapped>>
  /\ enqueued = <<"x", NewLine, "data:", " ", Unwrapped>>

\* C37: every selection of the fetch loop returns an account that at that moment is
\* not flagged rate-limited or has now > rateLimitResetTime, and every HTTP attempt is
\* made with an account that is not inside a cooldown window, neither in the pool of
\* the call nor in the stored pool.
C37_NoRequestInsideCooldown ==
  /\ [][(pc = "select" /\ pc' = "token") =>
          \/ ~accounts[account' + 1].isRateLimited
          \/ now > accounts[account' + 1].rateLimitResetTime]_vars
  /\ [][(pc = "endpoint" /\ Len(round') > Len(round)) =>
          /\ ~InsideCooldown(accounts[account + 1], now)
          /\ ~InsideCooldown(storage.accounts[account + 1], now)]_vars

\* C37 witness: a request is sent with an account whose cooldown has run out, while
\* another account of the pool is still inside its cooldown
C37_Witness ==
  /\ pc = "endpoint"
  /\ round # <<>>
  /\ accounts[account + 1].rateLimitResetTime > 0
  /\ now > accounts[account + 1].rateLimitResetTime
  /\ ~accounts[account + 1].isRateLimited
  /\ \E i \in DOMAIN accounts : InsideCooldown(accounts[i], now)

\* C38: whenever a selection of the fetch loop returns no account, getMinWaitTime of the
\* pool is strictly positive, so that the wait chosen is the remaining cooldown and
\* never the 60 s fallback, the instant now = rateLimitResetTime included.
C38_SelectionAndWaitAgree ==
  [][(pc = "select" /\ iter' # iter /\ account' = -1) =>
       /\ GetMinWaitTime(accounts', now) > 0
       /\ sleepTotal' = GetMinWaitTime(accounts', now)]_vars

\* the ways a round of tryEndpointFallbacks may end
RoundResults == {"success", "rate-limit", "retry-soon", "threw"}

\* C39: every round of tryEndpointFallbacks ends as success, rate-limit, retry-soon or
\* by throwing; the loop over the endpoints is never left past the last endpoint, the
\* result all-failed is never produced and no call ends through the all-failed branch.
C39_RoundOutcomes ==
  /\ [][(pc = "endpoint" /\ pc' # "endpoint") => result'.type \in RoundResults]_vars
  /\ [](pc = "endpoint" => ep <= LastEndpoint)
  /\ [](result.type # "all-failed")

\* C39 witness: a round in which every endpoint failed, with 404 from the last one, has
\* ended, as success
C39_Witness ==
  /\ pc = "idle"
  /\ Len(round) = Len(Endpoints)
  /\ \A i \in DOMAIN round : round[i].threw \/ ShouldRetryEndpoint(round[i].status)
  /\ round[Len(round)].status = 404
  /\ result.type = "success"

\* C40: with two or more accounts of which one is healthy, and without cancellation,
\* every call in flight eventually returns a response, whatever the troubled accounts
\* answer (429 with any retry-after, 5xx) and even if their token refresh keeps failing.
C40_ProgressWithHealthyAccount ==
  (pc # "idle") ~> (pc = "idle" /\ outcome.kind = "response")

====
